---- MODULE Spec2Model ----
(***************************************************************************)
(* pipx: isolated installs of command-line applications.                   *)
(*                                                                         *)
(* The model is a state machine over the two directories pipx manages:     *)
(* the venvs root (one directory per package: the registry) and the shared *)
(* bin directory (one entry per exposed app).  One action per command.     *)
(* The repository holds three generations of the install command:          *)
(*   pipx/__main__.py              install0   (no --force)                 *)
(*   pipx/main.py                  install    (--force, copy on Windows)   *)
(*   src/pipx/commands/install.py  install_cmd (Venv with the _existing    *)
(*                                 guard of pipx/Venv.py)                  *)
(* The external tools (python -m venv, pip, the package index) are inputs  *)
(* of the actions, drawn with \E from their possible outcomes.             *)
(***************************************************************************)
EXTENDS Integers, Sequences, FiniteSets, TLC

\* ------------------------------------------------------------------ bounds
NumPkgs == 2
NumApps == 2
MaxVersion == 2

Pkgs == 1..NumPkgs
AppNames == 1..NumApps

VARIABLES
  WINDOWS,   \* the platform switch of main.py (copy instead of symlink)
  venvs,     \* venvs root: package -> [dir, ver]
  localbin,  \* shared bin directory: app name -> entry
  latest,    \* package index: package -> version pip would install now
  last,      \* the command that ran last, with what it saw and did
  rt,        \* install / uninstall / install round-trip tracker
  shared,    \* the shared libraries directory on disk
  sl,        \* the shared_libs object of the running process
  now,       \* the clock, time.time()
  slast,     \* the shared_libs call that ran last, with what it did
  pure,      \* the pure function applied last, with its inputs and result
  rc,        \* pipxrc.json of one venv, the Pipxrc object and its last call
  cache      \* the venvs that run keeps in PIPX_VENV_CACHEDIR, by directory

pipxVars == <<WINDOWS, venvs, localbin, latest, last, rt>>
sharedVars == <<shared, sl, now, slast>>
moduleVars == <<pure, rc, cache>>
vars == <<WINDOWS, venvs, localbin, latest, last, rt, shared, sl, now, slast, pure, rc, cache>>

\* ------------------------------------------------------- the file system
\* A venv directory: dir is "absent", "empty" or "nonempty"; ver is the
\* installed version of the main package (0: not installed).
VenvAbsent == [dir |-> "absent", ver |-> 0]
VenvEmpty == [dir |-> "empty", ver |-> 0]

\* An entry of the shared bin directory under some app name n:
\*   none        no entry
\*   file        a regular file somebody else put there
\*   link to p   a symlink to <venvs>/p/bin/n
\*   copy of p   a copy of <venvs>/p/bin/n (copy-based platforms)
NoEntry == [kind |-> "none", pkg |-> 0]
UserFile == [kind |-> "file", pkg |-> 0]
Link(p) == [kind |-> "link", pkg |-> p]
Copy(p) == [kind |-> "copy", pkg |-> p]

\* The apps package p ships at version v: what the installer puts into the
\* venv's bin directory.  Version v of package p ships the apps p..v: a
\* release may ship no app at all, later releases add apps, and two
\* packages may ship an app of the same name.
Apps(p, v) == {a \in AppNames : p <= a /\ a <= v}

\* Venv.get_package_binary_paths: the names the inspection script prints,
\* joined to bin_path and filtered by exists(); empty when the interpreter
\* is missing or the distribution is not installed.
get_package_binary_paths(v, p) ==
  IF v.dir = "nonempty" THEN Apps(p, v.ver) ELSE {}

\* Venv.get_package_version: None (0) when the distribution is not found.
get_package_version(v) == IF v.dir = "nonempty" THEN v.ver ELSE 0

\* Path.exists() of <bin>/n: follows symlinks, so a symlink whose target is
\* gone does not exist.
PathExists(e, n, vs) ==
  \/ e.kind \in {"file", "copy"}
  \/ e.kind = "link" /\ n \in get_package_binary_paths(vs[e.pkg], e.pkg)

\* symlink_path.samefile(b), b = <venvs>/p/bin/n, for an existing path.
samefile(e, p) == e.kind = "link" /\ e.pkg = p

\* Every order in which a set of paths can be listed.
Orders(S) ==
  {s \in [1..Cardinality(S) -> S] : \A i, j \in 1..Cardinality(S) : s[i] = s[j] => i = j}

\* ------------------------------------------------------------- exposing
\* Path.symlink_to: fails (FileExistsError) when the name is taken, also by
\* a symlink whose target is gone.
symlink_to(acc, n, p) ==
  IF acc.bin[n].kind = "none"
  THEN [acc EXCEPT !.bin[n] = Link(p)]
  ELSE [acc EXCEPT !.crashed = TRUE]

\* symlink_one without the samefile test: a shim of the package itself is
\* taken for a foreign file.
symlink_one_nosame(acc, n, p, vs) ==
  IF PathExists(acc.bin[n], n, vs)
  THEN [acc EXCEPT !.warn = @ \cup {n}]
  ELSE symlink_to(acc, n, p)

\* One iteration of the loop of _symlink_package_binaries.
symlink_one(acc, n, p, vs) ==
  IF PathExists(acc.bin[n], n, vs)
  THEN IF samefile(acc.bin[n], p)
       THEN acc
       ELSE [acc EXCEPT !.warn = @ \cup {n}]
  ELSE symlink_to(acc, n, p)

RECURSIVE symlink_package_binaries(_, _, _, _)
symlink_package_binaries(acc, paths, p, vs) ==
  IF paths = <<>> \/ acc.crashed THEN acc
  ELSE symlink_package_binaries(symlink_one(acc, Head(paths), p, vs), Tail(paths), p, vs)

\* One iteration of the loop of _copy_package_binaries: an existing
\* destination is overwritten, with a warning.
copy_one(acc, n, p, vs) ==
  IF PathExists(acc.bin[n], n, vs)
  THEN [acc EXCEPT !.bin[n] = Copy(p), !.warn = @ \cup {n}]
  ELSE [acc EXCEPT !.bin[n] = Copy(p)]

RECURSIVE copy_package_binaries(_, _, _, _)
copy_package_binaries(acc, paths, p, vs) ==
  IF paths = <<>> THEN acc
  ELSE copy_package_binaries(copy_one(acc, Head(paths), p, vs), Tail(paths), p, vs)

\* expose_binaries_globally(local_bin_dir, binary_paths, package): the
\* result is the bin directory, the names warned about, and whether the
\* call raised.
expose_binaries_globally(bin, paths, p, vs) ==
  LET acc == [bin |-> bin, warn |-> {}, crashed |-> FALSE]
  IN IF WINDOWS
     THEN copy_package_binaries(acc, paths, p, vs)
     ELSE symlink_package_binaries(acc, paths, p, vs)

\* ----------------------------------------------------------- retracting
\* retract_matches by name on every platform.
retract_matches_byname(e, n, names, p, vs) == e.kind # "none" /\ n \in names

\* retract_matches that takes any live symlink under one of the names.
retract_matches_anylink(e, n, names, p, vs) ==
  IF WINDOWS
  THEN e.kind # "none" /\ n \in names
  ELSE PathExists(e, n, vs) /\ e.kind = "link" /\ n \in names

\* The test of the loop of uninstall on one bin entry: by name on Windows,
\* else symlink.exists() and b.exists() and symlink.samefile(b) for some b.
retract_matches(e, n, names, p, vs) ==
  IF WINDOWS
  THEN e.kind # "none" /\ n \in names
  ELSE \E b \in names : PathExists(e, n, vs) /\ samefile(e, p) /\ b = n

\* retract that unlinks nothing.
retract_keeps(bin, names, p, vs) == bin

\* The loop of uninstall over local_bin_dir.iterdir().
retract(bin, names, p, vs) ==
  [n \in AppNames |-> IF retract_matches(bin[n], n, names, p, vs) THEN NoEntry ELSE bin[n]]

\* get_exposed_binary_paths_for_package with is_same_file = True on every
\* platform.
get_exposed_binary_paths_byname(v, names, bin, p) ==
  {n \in AppNames : bin[n].kind # "none" /\ n \in names}

\* get_exposed_binary_paths_for_package(bin_path, package_binary_paths,
\* local_bin_dir), which list prints as the exposed apps: the entries of
\* the bin directory named like an app of the package and, except on
\* Windows, resolving into the venv's bin directory (a regular file
\* resolves to itself, in the shared bin directory; samefile on a bin_path
\* that does not exist raises FileNotFoundError, which skips the entry).
get_exposed_binary_paths_for_package(v, names, bin, p) ==
  {n \in AppNames :
     /\ bin[n].kind # "none" /\ n \in names
     /\ IF WINDOWS THEN TRUE
        ELSE bin[n].kind = "link" /\ bin[n].pkg = p /\ v.dir = "nonempty"}

\* _list_installed_package: nothing is reported for a venv in which the
\* package has no version.
list_exposed(v, bin, p) ==
  IF get_package_version(v) = 0 THEN {}
  ELSE get_exposed_binary_paths_for_package(v, get_package_binary_paths(v, p), bin, p)

\* rmdir(path): shutil.rmtree.
rmdir(v) == VenvAbsent

\* ------------------------------------------------- bookkeeping (history)
\* No pure function was applied.
NoPure == [fn |-> "none"]

InstallCmds == {"install0", "install", "install_cmd"}

NoCmd ==
  [cmd |-> "none", pkg |-> 0, force |-> FALSE, res |-> "none",
   venvPre |-> VenvAbsent, binPre |-> [n \in AppNames |-> NoEntry],
   warn |-> {}, paths |-> {}, exposed |-> FALSE,
   removeCalled |-> FALSE, atRemove |-> VenvAbsent,
   again |-> FALSE, warnBefore |-> {}, afterInstall |-> FALSE, fromEmpty |-> FALSE,
   reported |-> FALSE, venvsPre |-> [p \in Pkgs |-> VenvAbsent], log |-> <<>>]

\* The previous command ran expose to its end for the same package and paths.
ExposedBefore(p, out) ==
  /\ out.exposed /\ last.exposed /\ last.res = "ok"
  /\ last.pkg = p /\ last.paths = out.paths

\* The previous command was a successful install of the same package.
InstalledBefore(p) == last.cmd \in InstallCmds /\ last.res = "ok" /\ last.pkg = p

BinEmpty(bin) == \A n \in AppNames : bin[n] = NoEntry

NoRt == [stage |-> 0, pkg |-> 0, ver |-> 0, bin |-> [n \in AppNames |-> NoEntry]]

\* The tracker follows install(p) ok, uninstall(p), install(p) ok.
RtNext(l, vs, bin) ==
  IF l.cmd \in InstallCmds /\ l.res = "ok"
  THEN IF rt.stage = 2 /\ rt.pkg = l.pkg
       THEN [rt EXCEPT !.stage = 3]
       ELSE [stage |-> 1, pkg |-> l.pkg, ver |-> vs[l.pkg].ver, bin |-> bin]
  ELSE IF l.cmd = "uninstall" /\ l.res = "ok" /\ rt.stage = 1 /\ rt.pkg = l.pkg
       THEN [rt EXCEPT !.stage = 2]
       ELSE NoRt

\* A command's result: the venv, the bin directory, and its record.
Commit(p, out, rec) ==
  /\ venvs' = [venvs EXCEPT ![p] = out.venv]
  /\ localbin' = out.bin
  /\ last' = rec
  /\ rt' = RtNext(rec, [venvs EXCEPT ![p] = out.venv], out.bin)
  /\ UNCHANGED <<WINDOWS, latest>>
  /\ UNCHANGED <<sharedVars, moduleVars>>

Out(v, bin) ==
  [venv |-> v, bin |-> bin, warn |-> {}, paths |-> {}, exposed |-> FALSE,
   removeCalled |-> FALSE, atRemove |-> VenvAbsent, reported |-> FALSE]

Rec(cmd, p, force, res, out) ==
  [cmd |-> cmd, pkg |-> p, force |-> force, res |-> res,
   venvPre |-> venvs[p], binPre |-> localbin,
   warn |-> out.warn, paths |-> out.paths, exposed |-> out.exposed,
   removeCalled |-> out.removeCalled, atRemove |-> out.atRemove,
   again |-> ExposedBefore(p, out),
   warnBefore |-> IF ExposedBefore(p, out) THEN last.warn ELSE {},
   afterInstall |-> cmd = "uninstall" /\ InstalledBefore(p),
   fromEmpty |-> cmd = "uninstall" /\ InstalledBefore(p) /\ BinEmpty(last.binPre),
   reported |-> out.reported, venvsPre |-> NoCmd.venvsPre, log |-> <<>>]

\* ------------------------------------------------------- external tools
\* python -m venv <root> followed by the pip upgrade (create_venv): "ok",
\* "fail_early" (nothing was written) or "fail_late" (the directory was
\* populated, a later step failed).  An existing tree is kept.
venv_after_create(v, c) ==
  IF c = "fail_early" THEN v ELSE [dir |-> "nonempty", ver |-> v.ver]

\* pip install <package_or_url>, exit code 0: the distribution is there in
\* the version the index serves, or as it was (already satisfied).  found
\* is FALSE when what was installed does not carry the package's name.
venv_after_pip(v, p, found) ==
  IF v.ver > 0 THEN v
  ELSE [dir |-> "nonempty", ver |-> IF found THEN latest[p] ELSE 0]

\* ------------------------------------------------ install, pipx/main.py
\* remove_venv that leaves the tree.
remove_venv_main_kept(v) == v

remove_venv_main(v) == rmdir(v)

\* install_main_tail that raises on a package without apps and forgets to
\* remove the venv.
install_main_tail_noapps_kept(v, bin, p, ord, vs) ==
  LET paths == get_package_binary_paths(v, p)
      ex == expose_binaries_globally(bin, ord, p, [vs EXCEPT ![p] = v])
  IN IF get_package_version(v) = 0
     THEN [res |-> "noversion", out |-> Out(rmdir(v), bin)]
     ELSE IF paths = {}
     THEN [res |-> "noapps", out |-> Out(v, bin)]
     ELSE [res |-> IF ex.crashed THEN "exposecrash" ELSE "ok",
           out |-> [Out(v, ex.bin) EXCEPT !.warn = ex.warn, !.paths = paths,
                                          !.exposed = TRUE]]

\* The tail of install, from get_package_version on.
install_main_tail(v, bin, p, ord, vs) ==
  LET paths == get_package_binary_paths(v, p)
      ex == expose_binaries_globally(bin, ord, p, [vs EXCEPT ![p] = v])
  IN IF get_package_version(v) = 0
     THEN [res |-> "noversion", out |-> Out(remove_venv_main(v), bin)]
     ELSE IF paths = {}
     THEN [res |-> "noapps", out |-> Out(remove_venv_main(v), bin)]
     ELSE [res |-> IF ex.crashed THEN "exposecrash" ELSE "ok",
           out |-> [Out(v, ex.bin) EXCEPT !.warn = ex.warn, !.paths = paths,
                                          !.exposed = TRUE]]

install_main(v, bin, p, force, c, i, found, ord, vs) ==
  IF v.dir = "empty"
  THEN [res |-> "stopiteration", out |-> Out(v, bin)]
  ELSE IF v.dir = "nonempty" /\ ~force
  THEN [res |-> "exists", out |-> Out(v, bin)]
  ELSE IF c # "ok"
  THEN [res |-> "createfail", out |-> Out(venv_after_create(v, c), bin)]
  ELSE IF i # "ok"
  THEN [res |-> "pipfail", out |-> Out(remove_venv_main(venv_after_create(v, c)), bin)]
  ELSE install_main_tail(venv_after_pip(venv_after_create(v, c), p, found), bin, p, ord, vs)

\* What the external tools do in one run of install: the first of them to
\* fail, or none.  "notfound": pip exits 0 and the package's name is not
\* among the installed distributions.
Outcomes == {"fail_early", "fail_late", "pipfail", "notfound", "ok"}
CreateOf(o) == IF o \in {"fail_early", "fail_late"} THEN o ELSE "ok"
PipOf(o) == IF o = "pipfail" THEN "fail" ELSE "ok"
FoundOf(o) == o # "notfound"

\* The order binary_paths is listed in: any order of the paths the venv
\* will hold when expose runs.
PathOrders(v, p, o) ==
  Orders(get_package_binary_paths(
           venv_after_pip([dir |-> "nonempty", ver |-> v.ver], p, FoundOf(o)), p))

Install(p, force) ==
  \E o \in Outcomes :
    \E ord \in PathOrders(venvs[p], p, o) :
      LET r == install_main(venvs[p], localbin, p, force, CreateOf(o), PipOf(o), FoundOf(o), ord, venvs)
      IN Commit(p, r.out, Rec("install", p, force, r.res, r.out))

\* -------------------------------------------- install, pipx/__main__.py
remove_venv0(v) == rmdir(v)

\* The tail of install, from get_package_version on; this generation
\* exposes by symlink only.
install0_tail(v, bin, p, ord, vs) ==
  LET paths == get_package_binary_paths(v, p)
      ex == symlink_package_binaries([bin |-> bin, warn |-> {}, crashed |-> FALSE],
                                     ord, p, [vs EXCEPT ![p] = v])
  IN IF get_package_version(v) = 0
     THEN [res |-> "noversion", out |-> Out(remove_venv0(v), bin)]
     ELSE IF paths = {}
     THEN [res |-> "noapps", out |-> Out(remove_venv0(v), bin)]
     ELSE [res |-> IF ex.crashed THEN "exposecrash" ELSE "ok",
           out |-> [Out(v, ex.bin) EXCEPT !.warn = ex.warn, !.paths = paths,
                                          !.exposed = TRUE]]

\* install: create_venv only when the directory is missing; an empty
\* directory holds no pip, and running it raises FileNotFoundError.
install0(v, bin, p, c, i, found, ord, vs) ==
  IF v.dir = "absent" /\ c # "ok"
  THEN [res |-> "createfail", out |-> Out(venv_after_create(v, c), bin)]
  ELSE IF v.dir = "empty"
  THEN [res |-> "nopip", out |-> Out(v, bin)]
  ELSE LET created == IF v.dir = "absent" THEN venv_after_create(v, c) ELSE v
       IN IF i # "ok"
          THEN [res |-> "pipfail", out |-> Out(remove_venv0(created), bin)]
          ELSE install0_tail(venv_after_pip(created, p, found), bin, p, ord, vs)

\* This generation has no copy branch: it runs where symlinks are used.
Install0(p) ==
  /\ ~WINDOWS
  /\ \E o \in Outcomes :
       \E ord \in PathOrders(venvs[p], p, o) :
         LET r == install0(venvs[p], localbin, p, CreateOf(o), PipOf(o), FoundOf(o), ord, venvs)
         IN Commit(p, r.out, Rec("install0", p, FALSE, r.res, r.out))

\* ------------------- install, src/pipx/commands/install.py + pipx/Venv.py
\* Venv.__init__: self._existing = root.exists() and next(root.iterdir()),
\* False on StopIteration.
Existing(v) == v.dir = "nonempty"

\* safe_to_remove without the guard.
safe_to_remove_always(existing) == TRUE

safe_to_remove(existing) == ~existing

\* Venv.remove_venv: rmdir only when safe_to_remove, else a warning.
remove_venv(v, existing) == IF safe_to_remove(existing) THEN rmdir(v) ELSE v

\* The except branch of install: remove_venv, then re-raise.
install_cmd_fail(res, v, bin, existing) ==
  [res |-> res,
   out |-> [Out(remove_venv(v, existing), bin) EXCEPT !.removeCalled = TRUE, !.atRemove = v]]

\* run_post_install_actions (pipx.commands.common): no installed version or
\* no app is an error; otherwise the apps are exposed.
run_post_install_actions(v, bin, p, ord, vs, existing) ==
  LET paths == get_package_binary_paths(v, p)
      ex == expose_binaries_globally(bin, ord, p, [vs EXCEPT ![p] = v])
  IN IF get_package_version(v) = 0
     THEN install_cmd_fail("noversion", v, bin, existing)
     ELSE IF paths = {}
     THEN install_cmd_fail("noapps", v, bin, existing)
     ELSE IF ex.crashed
     THEN [res |-> "exposecrash",
           out |-> [Out(remove_venv(v, existing), ex.bin) EXCEPT
                      !.warn = ex.warn, !.paths = paths, !.exposed = TRUE,
                      !.removeCalled = TRUE, !.atRemove = v]]
     ELSE [res |-> "ok",
           out |-> [Out(v, ex.bin) EXCEPT !.warn = ex.warn, !.paths = paths,
                                          !.exposed = TRUE]]

install_cmd(v, bin, p, force, c, i, found, ord, vs) ==
  IF Existing(v) /\ ~force
  THEN [res |-> "already", out |-> Out(v, bin)]
  ELSE IF c # "ok"
  THEN install_cmd_fail("createfail", venv_after_create(v, c), bin, Existing(v))
  ELSE IF i # "ok"
  THEN install_cmd_fail("pipfail", venv_after_create(v, c), bin, Existing(v))
  ELSE run_post_install_actions(venv_after_pip(venv_after_create(v, c), p, found),
                                bin, p, ord, vs, Existing(v))

InstallCmd(p, force) ==
  \E o \in Outcomes :
    \E ord \in PathOrders(venvs[p], p, o) :
      LET r == install_cmd(venvs[p], localbin, p, force, CreateOf(o), PipOf(o), FoundOf(o), ord, venvs)
      IN Commit(p, r.out, Rec("install_cmd", p, force, r.res, r.out))

\* ---------------------------------------------- uninstall, pipx/main.py
uninstall(v, bin, p, vs) ==
  IF v.dir = "absent"
  THEN [res |-> "nothing", out |-> Out(v, bin)]
  ELSE LET names == get_package_binary_paths(v, p)
       IN [res |-> "ok",
           out |-> [Out(rmdir(v), retract(bin, names, p, vs)) EXCEPT !.paths = names]]

Uninstall(p) ==
  LET r == uninstall(venvs[p], localbin, p, venvs)
  IN Commit(p, r.out, Rec("uninstall", p, FALSE, r.res, r.out))

\* ------------------------------------------------- inject, pipx/main.py
\* What pip does in one run of inject: it fails, it exits 0 without the
\* dependency being among the installed distributions, or it installs it.
InjectOutcomes == {"pipfail", "notfound", "ok"}

\* The results of inject that are a PipxError.
InjectPipxErrors == {"nonexistent", "pipfail", "notfound"}

\* pip install <dependency> in the venv of the package: the tree stays,
\* and so does the distribution of the package itself.
venv_after_inject(v) == [dir |-> "nonempty", ver |-> v.ver]

\* inject(venv_dir, package, verbose): `not venv_dir.exists()` raises
\* PipxError; on an empty directory next(venv_dir.iterdir()) raises
\* StopIteration; else install_package (PipxError when pip fails) and
\* get_package_version of the dependency (PipxError when None).  log is
\* the calls of install_package.
inject(v, bin, p, o) ==
  IF v.dir = "absent"
  THEN [res |-> "nonexistent", out |-> Out(v, bin), log |-> <<>>]
  ELSE IF v.dir = "empty"
  THEN [res |-> "stopiteration", out |-> Out(v, bin), log |-> <<>>]
  ELSE [res |-> o, out |-> Out(venv_after_inject(v), bin),
        log |-> <<(<<"install_package", p>>)>>]

Inject(p) ==
  \E o \in InjectOutcomes :
    LET r == inject(venvs[p], localbin, p, o)
    IN Commit(p, r.out, [Rec("inject", p, FALSE, r.res, r.out) EXCEPT !.log = r.log])

\* ------------------------------------------------ upgrade, pipx/main.py
\* What pip does in one run of upgrade: it fails, it exits 0 without
\* touching the package ("notfound": the spec names another distribution),
\* or it exits 0 with the package at the version the index serves.
UpgradeOutcomes == {"pipfail", "notfound", "ok"}

\* pip install --upgrade <package_or_url>, exit code 0.
venv_after_upgrade(v, p, o) ==
  IF o = "ok" THEN [dir |-> "nonempty", ver |-> latest[p]] ELSE v

\* The order binary_paths is listed in after the upgrade.
UpgradeOrders(v, p, o) ==
  Orders(get_package_binary_paths(venv_after_upgrade(v, p, o), p))

\* upgrade that exposes the apps before it compares the versions.
upgrade_main_reexpose(v, bin, p, o, ord, vs, upgrading_all) ==
  LET new == venv_after_upgrade(v, p, o)
      ex == expose_binaries_globally(bin, ord, p, [vs EXCEPT ![p] = new])
  IN IF v.dir = "absent"
     THEN [res |-> "notinstalled", out |-> Out(v, bin)]
     ELSE IF v.dir = "empty"
     THEN [res |-> "nopython", out |-> Out(v, bin)]
     ELSE IF o = "pipfail"
     THEN [res |-> "pipfail", out |-> Out(v, bin)]
     ELSE IF get_package_version(v) = get_package_version(new)
     THEN [res |-> "same", out |-> [Out(new, ex.bin) EXCEPT !.reported = ~upgrading_all]]
     ELSE [res |-> IF ex.crashed THEN "exposecrash" ELSE "ok",
           out |-> [Out(new, ex.bin) EXCEPT
                      !.warn = ex.warn, !.exposed = TRUE,
                      !.paths = get_package_binary_paths(new, p)]]

\* upgrade: a missing directory is an error; in an empty directory running
\* the venv's python raises FileNotFoundError; a pip failure raises; equal
\* versions return 0 after the message (no message under upgrade-all);
\* else the apps are exposed and 1 is returned.
upgrade_main(v, bin, p, o, ord, vs, upgrading_all) ==
  LET new == venv_after_upgrade(v, p, o)
      ex == expose_binaries_globally(bin, ord, p, [vs EXCEPT ![p] = new])
  IN IF v.dir = "absent"
     THEN [res |-> "notinstalled", out |-> Out(v, bin)]
     ELSE IF v.dir = "empty"
     THEN [res |-> "nopython", out |-> Out(v, bin)]
     ELSE IF o = "pipfail"
     THEN [res |-> "pipfail", out |-> Out(v, bin)]
     ELSE IF get_package_version(v) = get_package_version(new)
     THEN [res |-> "same", out |-> [Out(new, bin) EXCEPT !.reported = ~upgrading_all]]
     ELSE [res |-> IF ex.crashed THEN "exposecrash" ELSE "ok",
           out |-> [Out(new, ex.bin) EXCEPT
                      !.warn = ex.warn, !.exposed = TRUE,
                      !.paths = get_package_binary_paths(new, p)]]

Upgrade(p) ==
  \E o \in UpgradeOutcomes :
    \E ord \in UpgradeOrders(venvs[p], p, o) :
      LET r == upgrade_main(venvs[p], localbin, p, o, ord, venvs, FALSE)
      IN Commit(p, r.out, Rec("upgrade", p, FALSE, r.res, r.out))

\* -------------------------------------------- upgrade, pipx/__main__.py
\* upgrade: as above, exposing by symlink, and the message is always
\* printed when the versions are equal.
upgrade0(v, bin, p, o, ord, vs) ==
  LET new == venv_after_upgrade(v, p, o)
      ex == symlink_package_binaries([bin |-> bin, warn |-> {}, crashed |-> FALSE],
                                     ord, p, [vs EXCEPT ![p] = new])
  IN IF v.dir = "absent"
     THEN [res |-> "notinstalled", out |-> Out(v, bin)]
     ELSE IF v.dir = "empty"
     THEN [res |-> "nopython", out |-> Out(v, bin)]
     ELSE IF o = "pipfail"
     THEN [res |-> "pipfail", out |-> Out(v, bin)]
     ELSE IF get_package_version(v) = get_package_version(new)
     THEN [res |-> "same", out |-> [Out(new, bin) EXCEPT !.reported = TRUE]]
     ELSE [res |-> IF ex.crashed THEN "exposecrash" ELSE "ok",
           out |-> [Out(new, ex.bin) EXCEPT
                      !.warn = ex.warn, !.exposed = TRUE,
                      !.paths = get_package_binary_paths(new, p)]]

Upgrade0(p) ==
  /\ ~WINDOWS
  /\ \E o \in UpgradeOutcomes :
       \E ord \in UpgradeOrders(venvs[p], p, o) :
         LET r == upgrade0(venvs[p], localbin, p, o, ord, venvs)
         IN Commit(p, r.out, Rec("upgrade0", p, FALSE, r.res, r.out))

\* ------------------------------------------- uninstall, pipx/__main__.py
\* uninstall: get_package_binary_paths runs the venv's python without
\* testing that it exists, which raises FileNotFoundError in an empty
\* directory; the loop unlinks by samefile only.
uninstall0(v, bin, p, vs) ==
  IF v.dir = "absent"
  THEN [res |-> "nothing", out |-> Out(v, bin)]
  ELSE IF v.dir = "empty"
  THEN [res |-> "nopython", out |-> Out(v, bin)]
  ELSE LET names == get_package_binary_paths(v, p)
           left == [n \in AppNames |->
                      IF PathExists(bin[n], n, vs) /\ samefile(bin[n], p) /\ n \in names
                      THEN NoEntry ELSE bin[n]]
       IN [res |-> "ok", out |-> [Out(rmdir(v), left) EXCEPT !.paths = names]]

\* ------------------------------------------------------ bulk commands
\* pipx_local_venvs.iterdir(): the directories of the venvs root.
Registry(vs) == {p \in Pkgs : vs[p].dir # "absent"}

\* The orders binary_paths is listed in, one per listed directory, in a
\* run of upgrade-all and in a run of reinstall-all.
UpgradeOrdersAll(D, o) ==
  {f \in [D -> UNION {UpgradeOrders(venvs[d], d, o[d]) : d \in D}] :
     \A d \in D : f[d] \in UpgradeOrders(venvs[d], d, o[d])}

ReinstallOrdersAll(D, o) ==
  {f \in [D -> UNION {PathOrders(VenvAbsent, d, o[d]) : d \in D}] :
     \A d \in D : f[d] \in PathOrders(VenvAbsent, d, o[d])}

\* The state a bulk command carries through its loop: the venvs root, the
\* bin directory, the calls made so far, and "ok" or what was raised.
BulkStart == [vs |-> venvs, bin |-> localbin, log |-> <<>>, res |-> "ok"]

\* The packages a bulk command has called its operation for.
Processed(log) == {log[i][2] : i \in DOMAIN log}

RecAll(cmd, acc) ==
  [NoCmd EXCEPT !.cmd = cmd, !.res = acc.res, !.binPre = localbin,
                !.venvsPre = venvs, !.log = acc.log]

CommitAll(cmd, acc) ==
  /\ venvs' = acc.vs
  /\ localbin' = acc.bin
  /\ last' = RecAll(cmd, acc)
  /\ rt' = NoRt
  /\ UNCHANGED <<WINDOWS, latest>>
  /\ UNCHANGED <<sharedVars, moduleVars>>

\* upgrade_all (pipx/main.py): upgrade every listed directory; an exception
\* of upgrade leaves the loop and the command.
RECURSIVE upgrade_all(_, _, _, _)
upgrade_all(acc, ps, o, ords) ==
  IF ps = <<>> THEN acc
  ELSE LET p == Head(ps)
           r == upgrade_main(acc.vs[p], acc.bin, p, o[p], ords[p], acc.vs, TRUE)
           nxt == [vs |-> [acc.vs EXCEPT ![p] = r.out.venv], bin |-> r.out.bin,
                   log |-> Append(acc.log, <<"upgrade", p>>),
                   res |-> IF r.res \in {"same", "ok"} THEN "ok" ELSE r.res]
       IN IF nxt.res = "ok" THEN upgrade_all(nxt, Tail(ps), o, ords) ELSE nxt

UpgradeAll ==
  \E ps \in Orders(Registry(venvs)) :
    \E o \in [Registry(venvs) -> UpgradeOutcomes] :
      \E ords \in UpgradeOrdersAll(Registry(venvs), o) :
        CommitAll("upgrade_all", upgrade_all(BulkStart, ps, o, ords))

\* upgrade_all (pipx/__main__.py).
RECURSIVE upgrade_all0(_, _, _, _)
upgrade_all0(acc, ps, o, ords) ==
  IF ps = <<>> THEN acc
  ELSE LET p == Head(ps)
           r == upgrade0(acc.vs[p], acc.bin, p, o[p], ords[p], acc.vs)
           nxt == [vs |-> [acc.vs EXCEPT ![p] = r.out.venv], bin |-> r.out.bin,
                   log |-> Append(acc.log, <<"upgrade", p>>),
                   res |-> IF r.res \in {"same", "ok"} THEN "ok" ELSE r.res]
       IN IF nxt.res = "ok" THEN upgrade_all0(nxt, Tail(ps), o, ords) ELSE nxt

UpgradeAll0 ==
  /\ ~WINDOWS
  /\ \E ps \in Orders(Registry(venvs)) :
       \E o \in [Registry(venvs) -> UpgradeOutcomes] :
         \E ords \in UpgradeOrdersAll(Registry(venvs), o) :
           CommitAll("upgrade_all0", upgrade_all0(BulkStart, ps, o, ords))

\* uninstall_all (pipx/main.py): uninstall every listed directory.
RECURSIVE uninstall_all(_, _)
uninstall_all(acc, ps) ==
  IF ps = <<>> THEN acc
  ELSE LET p == Head(ps)
           r == uninstall(acc.vs[p], acc.bin, p, acc.vs)
       IN uninstall_all([vs |-> [acc.vs EXCEPT ![p] = r.out.venv], bin |-> r.out.bin,
                         log |-> Append(acc.log, <<"uninstall", p>>), res |-> "ok"],
                        Tail(ps))

UninstallAll ==
  \E ps \in Orders(Registry(venvs)) :
    CommitAll("uninstall_all", uninstall_all(BulkStart, ps))

\* What the tools do in one run of reinstall-all: the loop ends at the
\* first install that fails, so the tools fail for one directory at most.
ReinstallOutcomes(D) ==
  {f \in [D -> Outcomes] : Cardinality({d \in D : f[d] # "ok"}) <= 1}

\* reinstall_all without the uninstall: install --force over the venv.
RECURSIVE reinstall_all_nouninstall(_, _, _, _)
reinstall_all_nouninstall(acc, ps, o, ords) ==
  IF ps = <<>> THEN acc
  ELSE LET p == Head(ps)
           i == install_main(acc.vs[p], acc.bin, p, TRUE, CreateOf(o[p]), PipOf(o[p]),
                             FoundOf(o[p]), ords[p], acc.vs)
           nxt == [vs |-> [acc.vs EXCEPT ![p] = i.out.venv], bin |-> i.out.bin,
                   log |-> Append(acc.log, <<"install", p>>),
                   res |-> i.res]
       IN IF nxt.res = "ok" THEN reinstall_all_nouninstall(nxt, Tail(ps), o, ords) ELSE nxt

\* reinstall_all (pipx/main.py): for every listed directory uninstall, then
\* install with force=True; an exception of install leaves the loop and
\* the command.
RECURSIVE reinstall_all(_, _, _, _)
reinstall_all(acc, ps, o, ords) ==
  IF ps = <<>> THEN acc
  ELSE LET p == Head(ps)
           u == uninstall(acc.vs[p], acc.bin, p, acc.vs)
           vs1 == [acc.vs EXCEPT ![p] = u.out.venv]
           i == install_main(u.out.venv, u.out.bin, p, TRUE, CreateOf(o[p]), PipOf(o[p]),
                             FoundOf(o[p]), ords[p], vs1)
           nxt == [vs |-> [acc.vs EXCEPT ![p] = i.out.venv], bin |-> i.out.bin,
                   log |-> acc.log \o <<(<<"uninstall", p>>), (<<"install", p>>)>>,
                   res |-> i.res]
       IN IF nxt.res = "ok" THEN reinstall_all(nxt, Tail(ps), o, ords) ELSE nxt

ReinstallAll ==
  \E ps \in Orders(Registry(venvs)) :
    \E o \in ReinstallOutcomes(Registry(venvs)) :
      \E ords \in ReinstallOrdersAll(Registry(venvs), o) :
        CommitAll("reinstall_all", reinstall_all(BulkStart, ps, o, ords))

\* reinstall_all (pipx/__main__.py): an exception of uninstall or install
\* leaves the loop and the command.
RECURSIVE reinstall_all0(_, _, _, _)
reinstall_all0(acc, ps, o, ords) ==
  IF ps = <<>> THEN acc
  ELSE LET p == Head(ps)
           u == uninstall0(acc.vs[p], acc.bin, p, acc.vs)
           vs1 == [acc.vs EXCEPT ![p] = u.out.venv]
           i == install0(u.out.venv, u.out.bin, p, CreateOf(o[p]), PipOf(o[p]),
                         FoundOf(o[p]), ords[p], vs1)
           nxt == [vs |-> [acc.vs EXCEPT ![p] = i.out.venv], bin |-> i.out.bin,
                   log |-> acc.log \o <<(<<"uninstall", p>>), (<<"install", p>>)>>,
                   res |-> i.res]
       IN IF u.res = "nopython"
          THEN [acc EXCEPT !.log = Append(@, <<"uninstall", p>>), !.res = "nopython"]
          ELSE IF nxt.res = "ok" THEN reinstall_all0(nxt, Tail(ps), o, ords) ELSE nxt

ReinstallAll0 ==
  /\ ~WINDOWS
  /\ \E ps \in Orders(Registry(venvs)) :
       \E o \in ReinstallOutcomes(Registry(venvs)) :
         \E ords \in ReinstallOrdersAll(Registry(venvs), o) :
           CommitAll("reinstall_all0", reinstall_all0(BulkStart, ps, o, ords))

\* ------------------------------------------------------ the environment
\* A new release of p appears on the index.
Publish(p) ==
  /\ latest[p] < MaxVersion
  /\ latest' = [latest EXCEPT ![p] = @ + 1]
  /\ last' = NoCmd
  /\ UNCHANGED <<WINDOWS, venvs, localbin, rt>>
  /\ UNCHANGED <<sharedVars, moduleVars>>

\* Somebody creates an empty directory in the venvs root.
Mkdir(p) ==
  /\ venvs[p].dir = "absent"
  /\ venvs' = [venvs EXCEPT ![p] = VenvEmpty]
  /\ last' = NoCmd
  /\ rt' = NoRt
  /\ UNCHANGED <<WINDOWS, localbin, latest>>
  /\ UNCHANGED <<sharedVars, moduleVars>>

\* ------------------------------ shared libraries, src/pipx/shared_libs.py
\* SHARED_LIBS_MAX_AGE_SEC, 30 days; the clock counts units of 10 days.
SHARED_LIBS_MAX_AGE_SEC == 3
MaxNow == 5

required_packages == {"pip", "wheel", "packaging", "importlib-metadata", "setuptools"}

\* pipx_freeze.txt: missing, or the names before "==" of its lines.
NoList == [exists |-> FALSE, names |-> {}]
ListOf(names) == [exists |-> TRUE, names |-> names]

\* What `pip freeze --all` prints: every required package, all but one, or
\* nothing (run_subprocess does not test its exit code).
FreezeOutputs == {required_packages, required_packages \ {"importlib-metadata"}, {}}

\* The shared directory: root, python_path and pip_path exist or not, the
\* st_mtime of pip_path, and the package list file.
NoShared == [root |-> FALSE, python |-> FALSE, pip |-> FALSE, mtime |-> 0, list |-> NoList]

\* The shared_libs object of a process: the class it is an instance of
\* ("Venv.py": SharedLibs, "shared_libs.py": _SharedLibs),
\* has_been_updated_this_run and _has_required_packages; success is
\* history: an upgrade of this process has run pip to its end.
Gens == {"Venv.py", "shared_libs.py"}
NewSharedLibs(g) == [gen |-> g, updated |-> FALSE, cache |-> "None", success |-> FALSE]

test_has_required_packages(d) ==
  d.list.exists /\ required_packages \subseteq d.list.names

\* has_required_packages: the value and the object after the read.
has_required_packages(d, m) ==
  IF m.cache = "None"
  THEN [val |-> test_has_required_packages(d),
        m |-> [m EXCEPT !.cache = IF test_has_required_packages(d) THEN "True" ELSE "False"]]
  ELSE [val |-> m.cache = "True", m |-> m]

\* is_valid: `and` reads has_required_packages only when both files exist.
is_valid(d, m) ==
  IF d.python /\ d.pip THEN has_required_packages(d, m) ELSE [val |-> FALSE, m |-> m]

\* needs_upgrade with >= for >.
needs_upgrade_ge(d, m, t) ==
  IF m.updated THEN FALSE
  ELSE IF ~d.pip THEN TRUE
  ELSE t - d.mtime >= SHARED_LIBS_MAX_AGE_SEC

needs_upgrade(d, m, t) ==
  IF m.updated THEN FALSE
  ELSE IF ~d.pip THEN TRUE
  ELSE t - d.mtime > SHARED_LIBS_MAX_AGE_SEC

\* What the tools do in one call: python -m venv ("fail": nothing was
\* written, "fail_cleared": the directory was emptied and not populated),
\* pip install --upgrade, pip freeze.
SharedTools ==
  [venv : {"ok", "fail", "fail_cleared"}, pip : {"ok", "fail"}, freeze : FreezeOutputs]

\* python -m venv --clear <root>, exit code 0: the directory is emptied and
\* populated with python and pip.
venv_clear(d) ==
  [root |-> TRUE, python |-> TRUE, pip |-> TRUE, mtime |-> now, list |-> NoList]

venv_failed(d, v) ==
  IF v = "fail_cleared" THEN [NoShared EXCEPT !.root = TRUE] ELSE d

\* The state a call carries: the directory, the object, whether upgrade
\* was called and what the directory was then, whether pip install ran,
\* "ok", "logged" (an exception was caught and logged) or "raised", and
\* the numbers of python -m venv and of pip install subprocesses.
CallStart ==
  [d |-> shared, m |-> sl, called |-> FALSE, atCall |-> NoShared, ran |-> FALSE,
   res |-> "ok", nvenv |-> 0, npip |-> 0]

Called(w) == [w EXCEPT !.called = TRUE, !.atCall = w.d]

\* upgrade that forgets has_been_updated_this_run.
upgrade_pip_forgets(w, t) ==
  IF t.pip = "fail"
  THEN [w EXCEPT !.ran = TRUE, !.res = "logged", !.npip = @ + 1]
  ELSE [w EXCEPT !.ran = TRUE, !.npip = @ + 1, !.d.list = ListOf(t.freeze), !.m.cache = "True",
                 !.m.success = TRUE, !.d.pip = TRUE, !.d.mtime = now]

\* upgrade that sets has_been_updated_this_run whether pip failed or not.
upgrade_pip_marks(w, t) ==
  IF t.pip = "fail"
  THEN [w EXCEPT !.ran = TRUE, !.res = "logged", !.npip = @ + 1, !.m.updated = TRUE]
  ELSE [w EXCEPT !.ran = TRUE, !.npip = @ + 1, !.d.list = ListOf(t.freeze), !.m.cache = "True",
                 !.m.updated = TRUE, !.m.success = TRUE, !.d.pip = TRUE, !.d.mtime = now]

\* The try block of upgrade: pip install --upgrade of the required
\* packages, then _write_package_list, the two flags and pip_path.touch().
upgrade_pip(w, t) ==
  IF t.pip = "fail"
  THEN [w EXCEPT !.ran = TRUE, !.res = "logged", !.npip = @ + 1]
  ELSE [w EXCEPT !.ran = TRUE, !.npip = @ + 1, !.d.list = ListOf(t.freeze), !.m.cache = "True",
                 !.m.updated = TRUE, !.m.success = TRUE, !.d.pip = TRUE, !.d.mtime = now]

RECURSIVE upgrade_shared(_, _)
RECURSIVE create_shared(_, _)

\* _SharedLibs.upgrade
upgrade_shared(w, t) ==
  IF w.m.updated THEN Called(w)
  ELSE IF ~w.d.python THEN create_shared(Called(w), t)
  ELSE upgrade_pip(Called(w), t)

\* create that clears the directory once more when upgrade logged a
\* failure.
create_shared_reclear(w, t) ==
  LET v == is_valid(w.d, w.m)
      u == upgrade_shared([w EXCEPT !.m = v.m, !.d = venv_clear(w.d), !.nvenv = @ + 1], t)
  IN IF v.val THEN [w EXCEPT !.m = v.m]
     ELSE IF t.venv # "ok"
     THEN [w EXCEPT !.m = v.m, !.d = venv_failed(w.d, t.venv), !.res = "raised",
                    !.nvenv = @ + 1]
     ELSE IF u.res = "logged" THEN [u EXCEPT !.d = venv_clear(u.d), !.nvenv = @ + 1]
     ELSE u

\* _SharedLibs.create
create_shared(w, t) ==
  LET v == is_valid(w.d, w.m)
  IN IF v.val THEN [w EXCEPT !.m = v.m]
     ELSE IF t.venv # "ok"
     THEN [w EXCEPT !.m = v.m, !.d = venv_failed(w.d, t.venv), !.res = "raised",
                    !.nvenv = @ + 1]
     ELSE upgrade_shared([w EXCEPT !.m = v.m, !.d = venv_clear(w.d), !.nvenv = @ + 1], t)

\* --------------------------------- shared libraries, pipx/Venv.py
\* SharedLibs.upgrade: _run raises when python is missing or pip fails;
\* the exception is caught and logged.
upgrade_shared0(w, t) ==
  IF w.m.updated THEN Called(w)
  ELSE IF ~w.d.python THEN [Called(w) EXCEPT !.res = "logged"]
  ELSE IF t.pip = "fail"
  THEN [Called(w) EXCEPT !.ran = TRUE, !.res = "logged", !.npip = @ + 1]
  ELSE [Called(w) EXCEPT !.ran = TRUE, !.npip = @ + 1, !.m.updated = TRUE,
                         !.m.success = TRUE]

\* SharedLibs.create: python -m venv <root> when root does not exist.
create_shared0(w, t) ==
  IF w.d.root THEN w
  ELSE IF t.venv # "ok"
  THEN [w EXCEPT !.d = venv_failed(w.d, t.venv), !.res = "raised", !.nvenv = @ + 1]
  ELSE upgrade_shared0([w EXCEPT !.d = venv_clear(w.d), !.nvenv = @ + 1], t)

\* ------------------------------------------ the calls of shared_libs
NoCall ==
  [op |-> "none", res |-> "none", called |-> FALSE, after |-> FALSE,
   atCall |-> NoShared, ran |-> FALSE, nvenv |-> 0, npip |-> 0]

CommitCall(op, w) ==
  /\ shared' = w.d
  /\ sl' = w.m
  /\ slast' = [op |-> op, res |-> w.res, called |-> w.called, after |-> sl.success,
               atCall |-> w.atCall, ran |-> w.ran, nvenv |-> w.nvenv, npip |-> w.npip]
  /\ UNCHANGED now
  /\ UNCHANGED <<pipxVars, moduleVars>>

\* Venv.upgrade_packaging_libraries: shared_libs.upgrade(...)
SharedUpgrade ==
  /\ sl.gen = "shared_libs.py"
  /\ \E t \in SharedTools : CommitCall("upgrade", upgrade_shared(CallStart, t))

SharedUpgrade0 ==
  /\ sl.gen = "Venv.py"
  /\ \E t \in SharedTools : CommitCall("upgrade", upgrade_shared0(CallStart, t))

\* Venv.create_venv: shared_libs.create(...)
SharedCreate ==
  /\ sl.gen = "shared_libs.py"
  /\ \E t \in SharedTools : CommitCall("create", create_shared(CallStart, t))

SharedCreate0 ==
  /\ sl.gen = "Venv.py"
  /\ \E t \in SharedTools : CommitCall("create", create_shared0(CallStart, t))

\* Time passes.
Tick ==
  /\ now < MaxNow
  /\ now' = now + 1
  /\ slast' = NoCall
  /\ UNCHANGED <<shared, sl>>
  /\ UNCHANGED <<pipxVars, moduleVars>>

\* The process ends and pipx is run again: shared_libs = _SharedLibs().
NewRun ==
  /\ \E g \in Gens : sl' = NewSharedLibs(g)
  /\ slast' = NoCall
  /\ UNCHANGED <<shared, now>>
  /\ UNCHANGED <<pipxVars, moduleVars>>

\* The shared directory when pipx starts: missing, or a directory with
\* python, pip and the package list each there or not.
InitialShared ==
  {NoShared} \cup
  {[root |-> TRUE, python |-> py, pip |-> pi, mtime |-> 0, list |-> l] :
     py \in BOOLEAN, pi \in BOOLEAN, l \in {NoList} \cup {ListOf(f) : f \in FreezeOutputs}}

\* --------------------- package specifiers, src/pipx/package_specifier.py
\* A string is a sequence of tokens, each a piece of text:
\*   "a" "b" "B"    letters                 "-" "_" "."   name separators
\*   "[x]"          an extras list          "==1"         a version clause
\*   ";m"           a marker, no blank before it
\*   " ;m"          a blank and a marker
\*   "@" "@ "       the URL sign, bare and followed by a blank
\*   "U"            scheme and host of a URL, "https://h"
\*   "./"           a relative path prefix  "/cwd/"       the working directory
Letters == {"a", "b", "B"}
Seps == {"-", "_", "."}
NameChars == Letters \cup Seps
UrlChars == NameChars \cup {";m", "./", "==1", "@"}

lower(c) == IF c = "B" THEN "b" ELSE c

\* The longest prefix of s made of tokens of C.
RECURSIVE SpanLen(_, _)
SpanLen(s, C) ==
  IF s = <<>> \/ Head(s) \notin C THEN 0 ELSE 1 + SpanLen(Tail(s), C)

Drop(s, k) == SubSeq(s, k + 1, Len(s))

\* canonicalize_name that only lower-cases.
RECURSIVE canonicalize_name_lower(_)
canonicalize_name_lower(n) ==
  IF n = <<>> THEN <<>> ELSE <<lower(Head(n))>> \o canonicalize_name_lower(Tail(n))

\* packaging.utils.canonicalize_name: re.sub(r"[-_.]+", "-", name).lower()
RECURSIVE canonicalize_name(_)
canonicalize_name(n) ==
  IF n = <<>> THEN <<>>
  ELSE IF Head(n) \in Seps
  THEN IF Len(n) > 1 /\ n[2] \in Seps
       THEN canonicalize_name(Tail(n))
       ELSE <<"-">> \o canonicalize_name(Tail(n))
  ELSE <<lower(Head(n))>> \o canonicalize_name(Tail(n))

InvalidRequirement ==
  [ok |-> FALSE, name |-> <<>>, extras |-> {}, specifier |-> {}, url |-> <<>>,
   marker |-> FALSE]

\* The URL and marker after the URL sign: the URL runs to the first blank,
\* needs a scheme and a host, and only a marker may follow it.
requirement_url(req, r) ==
  LET k == SpanLen(r, {"U"} \cup UrlChars)
      url == SubSeq(r, 1, k)
      rest == Drop(r, k)
  IN IF k > 0 /\ Head(r) = "U" /\ SpanLen(Tail(url), UrlChars) = k - 1
        /\ rest \in {<<>>, <<" ;m">>}
     THEN [req EXCEPT !.url = url, !.marker = rest # <<>>]
     ELSE InvalidRequirement

\* The version clauses and marker of a requirement without URL.
requirement_versions(req, r) ==
  LET k == SpanLen(r, {"==1"})
      rest == Drop(r, k)
  IN IF rest \in {<<>>, <<";m">>, <<" ;m">>}
     THEN [req EXCEPT !.specifier = IF k > 0 THEN {"==1"} ELSE {}, !.marker = rest # <<>>]
     ELSE InvalidRequirement

\* packaging.requirements.Requirement(s): name, extras, then a URL or
\* version clauses, then a marker (PEP 508).
Requirement(s) ==
  LET n == SpanLen(s, NameChars)
      r1 == Drop(s, n)
      hasx == r1 # <<>> /\ Head(r1) = "[x]"
      r2 == IF hasx THEN Tail(r1) ELSE r1
      req == [ok |-> TRUE, name |-> SubSeq(s, 1, n), extras |-> IF hasx THEN {"x"} ELSE {},
              specifier |-> {}, url |-> <<>>, marker |-> FALSE]
  IN IF n = 0 \/ s[1] \notin Letters \/ s[n] \notin Letters
     THEN InvalidRequirement
     ELSE IF r2 # <<>> /\ Head(r2) \in {"@", "@ "}
     THEN requirement_url(req, Tail(r2))
     ELSE requirement_versions(req, r2)

\* str(requirement)
str_requirement(req) ==
  req.name
  \o (IF req.extras # {} THEN <<"[x]">> ELSE <<>>)
  \o (IF req.specifier # {} THEN <<"==1">> ELSE <<>>)
  \o (IF req.url # <<>> THEN <<"@ ">> \o req.url ELSE <<>>)
  \o (IF req.marker THEN (IF req.url # <<>> THEN <<" ;m">> ELSE <<";m">>) ELSE <<>>)

\* The index of the last extras list of s that has text before it, or 0.
RECURSIVE LastExtras(_, _)
LastExtras(s, k) ==
  IF k <= 1 THEN 0 ELSE IF s[k] = "[x]" THEN k ELSE LastExtras(s, k - 1)

\* _split_path_extras: re.search(r"(.+)(\[.+\])", package_spec); what
\* follows the extras list is in neither group.
split_path_extras(s) ==
  LET k == LastExtras(s, Len(s))
  IN IF k > 0 THEN <<SubSeq(s, 1, k - 1), <<"[x]">> >> ELSE <<s, <<>> >>

\* str(Path(p).resolve())
resolve(p) ==
  IF p # <<>> /\ Head(p) = "/cwd/" THEN p
  ELSE <<"/cwd/">> \o (IF p # <<>> /\ Head(p) = "./" THEN Tail(p) ELSE p)

\* None as a string; a requirement that is None is one that is not ok.
None == <<"None">>
NoParse == [valid_pep508 |-> InvalidRequirement, valid_url |-> None, valid_local_path |-> None]

\* _parse_specifier that looks for a local path first.
parse_specifier_pathfirst(spec, exists) ==
  LET req == Requirement(spec)
      isurl == Requirement(<<"a", "@ ">> \o spec).ok
      pe == split_path_extras(spec)
  IN IF exists
     THEN [err |-> FALSE, pp |-> [NoParse EXCEPT !.valid_local_path = resolve(pe[1]) \o pe[2]]]
     ELSE IF req.ok
     THEN [err |-> FALSE, pp |-> [NoParse EXCEPT !.valid_pep508 = req]]
     ELSE IF isurl
     THEN [err |-> FALSE, pp |-> [NoParse EXCEPT !.valid_url = spec]]
     ELSE [err |-> TRUE, pp |-> NoParse]

\* _parse_specifier; exists is Path(package_path_str).exists().
parse_specifier(spec, exists) ==
  LET req == Requirement(spec)
      isurl == Requirement(<<"a", "@ ">> \o spec).ok
      pe == split_path_extras(spec)
  IN IF req.ok
     THEN [err |-> FALSE, pp |-> [NoParse EXCEPT !.valid_pep508 = req]]
     ELSE IF isurl
     THEN [err |-> FALSE, pp |-> [NoParse EXCEPT !.valid_url = spec]]
     ELSE IF exists
     THEN [err |-> FALSE, pp |-> [NoParse EXCEPT !.valid_local_path = resolve(pe[1]) \o pe[2]]]
     ELSE [err |-> TRUE, pp |-> NoParse]

\* package_or_url_from_pep508 that keeps the version specifiers.
package_or_url_from_pep508_keeps(req, remove_version_specifiers) ==
  str_requirement([req EXCEPT !.marker = FALSE, !.name = canonicalize_name(@)])

package_or_url_from_pep508(req, remove_version_specifiers) ==
  str_requirement([req EXCEPT !.marker = FALSE,
                              !.name = canonicalize_name(@),
                              !.specifier = IF remove_version_specifiers THEN {} ELSE @])

parsed_package_to_package_or_url(pp, remove_version_specifiers) ==
  IF pp.valid_pep508.ok
  THEN package_or_url_from_pep508(pp.valid_pep508, remove_version_specifiers)
  ELSE IF pp.valid_url # None THEN pp.valid_url
  ELSE pp.valid_local_path

\* list.remove(x): the first occurrence of x is removed.
RECURSIVE list_remove(_, _)
list_remove(l, x) ==
  IF l = <<>> THEN <<>>
  ELSE IF Head(l) = x THEN Tail(l)
  ELSE <<Head(l)>> \o list_remove(Tail(l), x)

Elems(l) == {l[i] : i \in DOMAIN l}

parse_specifier_for_install(spec, pip_args, exists) ==
  LET r == parse_specifier(spec, exists)
  IN IF r.err THEN [err |-> TRUE, pp |-> r.pp, out |-> <<>>, args |-> pip_args]
     ELSE [err |-> FALSE, pp |-> r.pp,
           out |-> parsed_package_to_package_or_url(r.pp, FALSE),
           args |-> IF "--editable" \in Elems(pip_args) /\ r.pp.valid_local_path = None
                    THEN list_remove(pip_args, "--editable")
                    ELSE pip_args]

parse_specifier_for_metadata(spec, exists) ==
  LET r == parse_specifier(spec, exists)
  IN IF r.err THEN [err |-> TRUE, pp |-> r.pp, out |-> <<>>]
     ELSE [err |-> FALSE, pp |-> r.pp, out |-> parsed_package_to_package_or_url(r.pp, FALSE)]

parse_specifier_for_upgrade(spec, exists) ==
  LET r == parse_specifier(spec, exists)
  IN IF r.err THEN [err |-> TRUE, pp |-> r.pp, out |-> <<>>]
     ELSE [err |-> FALSE, pp |-> r.pp, out |-> parsed_package_to_package_or_url(r.pp, TRUE)]

\* ---------------------------------------------- the specifiers given
MaxNameLen == 3
MaxArgs == 2

SeqsUpTo(S, n) == UNION {[1..k -> S] : k \in 0..n}

\* The names tried: project names, and texts that are no name.
NameInputs == SeqsUpTo({"a", "B", "-", "_"}, MaxNameLen) \ {<<>>}

ExtInputs == {<<>>, <<"[x]">>}
MarkInputs == {<<>>, <<";m">>, <<" ;m">>}

\* The package specs tried: requirements with and without URL, URLs,
\* relative paths, and a version clause followed by a URL.
SpecInputs ==
  {n \o e \o v \o m : n \in NameInputs, e \in ExtInputs, v \in {<<>>, <<"==1">>}, m \in MarkInputs}
  \cup {n \o e \o at \o <<"U">> \o m :
          n \in NameInputs, e \in ExtInputs, at \in {<<"@">>, <<"@ ">>}, m \in MarkInputs}
  \cup {<<"U">> \o n \o m : n \in NameInputs, m \in MarkInputs}
  \cup {<<"./">> \o n \o e : n \in NameInputs, e \in ExtInputs}
  \cup {n \o <<"==1", "@", "U">> : n \in NameInputs}
  \cup {<<"./">> \o n \o <<"[x]">> \o t : n \in NameInputs, t \in {<<"a">>, <<"[x]">>}}

ArgInputs == SeqsUpTo({"--editable", "-q"}, MaxArgs)

PureInput(s) ==
  [fn |-> "input", spec |-> s, exists |-> FALSE, pip_args |-> <<>>, err |-> FALSE,
   pp |-> NoParse, out |-> <<>>, args |-> <<>>, round |-> 0, first |-> <<>>,
   whole |-> FALSE, package |-> <<>>, warned |-> FALSE]

\* ex is whether the path that _split_path_extras returns exists, whole
\* whether a path named by all of the spec exists.
ParseSpecifier ==
  /\ pure.fn = "input"
  /\ \E ex \in BOOLEAN, whole \in BOOLEAN :
       /\ split_path_extras(pure.spec)[1] = pure.spec => whole = ex
       /\ LET r == parse_specifier(pure.spec, ex)
          IN pure' = [pure EXCEPT !.fn = "parse", !.exists = ex, !.whole = whole,
                                  !.err = r.err, !.pp = r.pp]
  /\ UNCHANGED <<pipxVars, sharedVars, rc, cache>>

ParseForInstall ==
  /\ pure.fn = "input"
  /\ \E ex \in BOOLEAN, a \in ArgInputs :
       LET r == parse_specifier_for_install(pure.spec, a, ex)
       IN pure' = [pure EXCEPT !.fn = "install", !.exists = ex, !.pip_args = a,
                               !.err = r.err, !.pp = r.pp, !.out = r.out, !.args = r.args]
  /\ UNCHANGED <<pipxVars, sharedVars, rc, cache>>

\* parse_specifier_for_metadata of a spec given, and of a spec that
\* parse_specifier_for_metadata returned.
ParseForMetadata ==
  /\ \/ pure.fn = "input"
     \/ pure.fn = "metadata" /\ ~pure.err /\ pure.round = 1
  /\ \E ex \in BOOLEAN :
       LET r == parse_specifier_for_metadata(IF pure.fn = "input" THEN pure.spec ELSE pure.out, ex)
       IN pure' = [pure EXCEPT !.fn = "metadata", !.exists = ex,
                               !.err = r.err, !.pp = r.pp, !.out = r.out,
                               !.round = @ + 1, !.first = pure.out]
  /\ UNCHANGED <<pipxVars, sharedVars, rc, cache>>

ParseForUpgrade ==
  /\ pure.fn = "input"
  /\ \E ex \in BOOLEAN :
       LET r == parse_specifier_for_upgrade(pure.spec, ex)
       IN pure' = [pure EXCEPT !.fn = "upgrade", !.exists = ex,
                               !.err = r.err, !.pp = r.pp, !.out = r.out]
  /\ UNCHANGED <<pipxVars, sharedVars, rc, cache>>

\* Installed names: the names among NameInputs that PEP 508 allows.
PackageInputs ==
  {n \in NameInputs : n[1] \in Letters /\ n[Len(n)] \in Letters}

\* fix_package_name that compares the names as they are written.
fix_package_name_textual(package_or_url, package) ==
  LET req == Requirement(package_or_url)
  IN IF ~req.ok THEN [out |-> package_or_url, warned |-> FALSE]
     ELSE [out |-> str_requirement([req EXCEPT !.name = package]),
           warned |-> req.name # package]

fix_package_name(package_or_url, package) ==
  LET req == Requirement(package_or_url)
  IN IF ~req.ok THEN [out |-> package_or_url, warned |-> FALSE]
     ELSE [out |-> str_requirement([req EXCEPT !.name = package]),
           warned |-> canonicalize_name(req.name) # canonicalize_name(package)]

FixPackageName ==
  /\ pure.fn = "input"
  /\ \E package \in PackageInputs :
       LET r == fix_package_name(pure.spec, package)
       IN pure' = [pure EXCEPT !.fn = "fix", !.package = package,
                               !.out = r.out, !.warned = r.warned]
  /\ UNCHANGED <<pipxVars, sharedVars, rc, cache>>

\* re.search(r"^([A-Z0-9]|[A-Z0-9][A-Z0-9._-]*[A-Z0-9])$", s, re.I)
valid_pkg_name(s) ==
  /\ s # <<>>
  /\ SpanLen(s, NameChars) = Len(s)
  /\ s[1] \in Letters /\ s[Len(s)] \in Letters

\* abs_path_if_local of pipxrc.py; exists is Path(package_or_url).exists(),
\* installed is whether pip search reports the name as INSTALLED.
abs_path_if_local(package_or_url, exists, pip_args, installed) ==
  IF ~exists THEN package_or_url
  ELSE IF "--editable" \in Elems(pip_args) THEN resolve(package_or_url)
  ELSE IF ~valid_pkg_name(package_or_url) THEN resolve(package_or_url)
  ELSE IF installed THEN package_or_url
  ELSE resolve(package_or_url)

AbsPathIfLocal ==
  /\ pure.fn = "input"
  /\ \E ex \in BOOLEAN, a \in {<<>>, <<"--editable">>}, installed \in BOOLEAN :
       pure' = [pure EXCEPT !.fn = "abs_path", !.exists = ex, !.whole = ex, !.pip_args = a,
                            !.out = abs_path_if_local(pure.spec, ex, a, installed)]
  /\ UNCHANGED <<pipxVars, sharedVars, rc, cache>>

\* ------------------- the venv directory, src/pipx/commands/install.py
\* The package names that package_name_from_spec may return: a canonical
\* name for a PyPI name, the name that pip reports for a URL or a path.
VenvNameInputs ==
  {n \in SeqsUpTo({"a", "b", "."}, MaxNameLen) \ {<<>>} :
     n[1] \in Letters /\ n[Len(n)] \in Letters}

\* suffix: None, "" or a text.
SuffixInputs == {None, <<>>, <<"_">>, <<"_", "a">>}

\* The index of the last "." of name, or 0.
RECURSIVE rfind_dot(_, _)
rfind_dot(name, k) ==
  IF k = 0 THEN 0 ELSE IF name[k] = "." THEN k ELSE rfind_dot(name, k - 1)

\* PurePath.stem: the name without its last suffix.
stem(name) ==
  LET i == rfind_dot(name, Len(name))
  IN IF 1 < i /\ i < Len(name) THEN SubSeq(name, 1, i - 1) ELSE name

\* VenvContainer.get_venv_dir(package_name): the root / package_name; a
\* directory of the root is written as its name.
get_venv_dir(package_name) == package_name

\* install with venv_dir None: the name of the directory installed to.
install_venv_dir(package_name, suffix) ==
  IF suffix # None
  THEN stem(get_venv_dir(package_name)) \o suffix
  ELSE get_venv_dir(package_name)

\* install of a package and, after it, of a second one.
InstallDir ==
  /\ pure.fn = "none" \/ (pure.fn = "venv_dir" /\ pure.round = 1)
  /\ \E n \in VenvNameInputs, sfx \in SuffixInputs :
       pure' = [fn |-> "venv_dir", name |-> n, suffix |-> sfx,
                out |-> install_venv_dir(n, sfx),
                round |-> IF pure.fn = "none" THEN 1 ELSE 2,
                prev |-> IF pure.fn = "none" THEN <<>>
                         ELSE <<pure.name, pure.suffix, pure.out>>]
  /\ UNCHANGED <<pipxVars, sharedVars, rc, cache>>

\* --------------------------------- run, src/pipx/commands/run.py
\* A file name is a stem with or without the ending ".exe". The package
\* that a run installs has one console script, "app", and one entry point
\* of the group "pipx.run", "ep"; "none" is an app it does not have.
NumKeys == 2
DayStep == 7
MaxAge == 21
TEMP_VENV_EXPIRATION_THRESHOLD_DAYS == 14

FileName(st, e) == [stem |-> st, exe |-> e]
RunApps ==
  {FileName("app", FALSE), FileName("app", TRUE), FileName("ep", FALSE),
   FileName("none", FALSE)}

\* _get_temporary_venv_path: one directory for each package_or_url,
\* python, pip_args and venv_args; the app is no part of the hash.
Keys == 1..NumKeys

\* A directory of the cache: python is the interpreter of the venv, files
\* the bin directory, eps the pipx.run entry points of the installed
\* distributions, marked the file VENV_EXPIRED_FILENAME, age the days since
\* st_ctime.
NoDir ==
  [exists |-> FALSE, python |-> FALSE, files |-> {}, eps |-> {},
   marked |-> FALSE, age |-> 0]
NoCache == [k \in Keys |-> NoDir]

\* install_package: pip writes the console script into the bin directory,
\* app.exe on Windows, and the metadata lists it.
PkgFiles == {FileName("app", WINDOWS)}
PkgEps == {FileName("ep", FALSE)}

_is_temporary_venv_expired(d) ==
  d.age > TEMP_VENV_EXPIRATION_THRESHOLD_DAYS \/ d.marked

_remove_all_expired_venvs(c) ==
  [k \in Keys |-> IF c[k].exists /\ _is_temporary_venv_expired(c[k]) THEN NoDir ELSE c[k]]

\* _prepare_venv_cache that leaves the expired venvs where they are.
prepare_venv_cache_keeps(c, k, bin_path, use_cache) ==
  IF ~use_cache /\ bin_path \in c[k].files THEN [c EXCEPT ![k] = NoDir] ELSE c

_prepare_venv_cache(c, k, bin_path, use_cache) ==
  _remove_all_expired_venvs(
    IF ~use_cache /\ bin_path \in c[k].files THEN [c EXCEPT ![k] = NoDir] ELSE c)

\* _find_entry_point: None (FALSE) without the interpreter.
_find_entry_point(d, app) == d.python /\ app \in d.eps

\* _resolve_command: "ep", "bin" or the PipxError.
_resolve_command(d, app) ==
  LET name == IF WINDOWS /\ ~app.exe THEN FileName(app.stem, TRUE) ELSE app
  IN IF _find_entry_point(d, app) THEN "ep"
     ELSE IF name \notin d.files THEN "not_found"
     ELSE "bin"

\* The run that ended last: seq tells one run from the next, pre that the
\* directory was there before, url that the package is given by a URL.
NoRun ==
  [fn |-> "none", seq |-> 0, app |-> FileName("none", FALSE), key |-> 1,
   use_cache |-> TRUE, url |-> FALSE, pre |-> FALSE, removed |-> FALSE,
   created |-> FALSE, installed |-> FALSE, res |-> "none", listed |-> {}]

\* _download_and_run in directory d: create_venv, install_package,
\* _resolve_command, the mark of a run without the cache, the app.
_download_and_run(d, app, use_cache, tool) ==
  LET made == [d EXCEPT !.exists = TRUE, !.python = tool # "venv_fail" \/ @]
      full == [made EXCEPT !.files = @ \cup PkgFiles, !.eps = PkgEps]
      command == _resolve_command(full, app)
  IN IF tool = "venv_fail"
     THEN [dir |-> made, created |-> FALSE, installed |-> FALSE, res |-> "venv_fail",
           listed |-> {}]
     ELSE IF tool = "pip_fail"
     THEN [dir |-> made, created |-> TRUE, installed |-> FALSE, res |-> "pip_fail",
           listed |-> {}]
     ELSE IF command = "not_found"
     THEN [dir |-> full, created |-> TRUE, installed |-> TRUE, res |-> "not_found",
           listed |-> PkgFiles]
     ELSE [dir |-> [full EXCEPT !.marked = @ \/ ~use_cache],
           created |-> TRUE, installed |-> TRUE,
           res |-> IF command = "ep" THEN "new_ep" ELSE "new_bin", listed |-> {}]

\* run of an app that is no URL: the local __pypackages__ first, then the
\* cached venv, then _download_and_run.
Run ==
  /\ pure.fn \in {"none", "run", "ephemeral"}
  /\ \E app \in RunApps, k \in Keys, use_cache \in BOOLEAN, pypkg \in BOOLEAN,
        tool \in {"ok", "venv_fail", "pip_fail"} :
       LET bin_path == app
           c == _prepare_venv_cache(cache, k, bin_path, use_cache)
           d == c[k]
           r == _download_and_run(d, app, use_cache, tool)
           rec == [NoRun EXCEPT !.fn = "run", !.seq = 1 - pure.seq, !.app = app, !.key = k,
                                !.use_cache = use_cache, !.pre = cache[k].exists]
       IN IF pypkg
          THEN /\ pure' = [rec EXCEPT !.res = "pypackages"]
               /\ cache' = cache
          ELSE IF _find_entry_point(d, app)
          THEN /\ pure' = [rec EXCEPT !.res = "cached_ep", !.removed = cache[k].exists /\ ~d.exists]
               /\ cache' = c
          ELSE IF bin_path \in d.files
          THEN /\ pure' = [rec EXCEPT !.res = "cached_bin", !.removed = cache[k].exists /\ ~d.exists]
               /\ cache' = c
          ELSE /\ pure' = [rec EXCEPT !.res = r.res, !.removed = cache[k].exists /\ ~d.exists,
                                      !.created = r.created, !.installed = r.installed,
                                      !.listed = r.listed]
               /\ cache' = [c EXCEPT ![k] = r.dir]
  /\ UNCHANGED <<pipxVars, sharedVars, rc>>

\* Venv.get_package_binary_paths(package) of a run: the script asks
\* pkg_resources for the distribution named by the text of package, and
\* prints nothing when that text is a URL.
run_package_binary_paths(d, url) == IF url THEN {} ELSE d.files

\* download_and_run of __main__.py in a fresh temporary directory.
download_and_run0(binary, url, tool) ==
  LET full == [NoDir EXCEPT !.exists = TRUE, !.python = TRUE, !.files = PkgFiles]
  IN IF tool = "venv_fail"
     THEN [created |-> FALSE, installed |-> FALSE, res |-> "venv_fail", listed |-> {}]
     ELSE IF tool = "pip_fail"
     THEN [created |-> TRUE, installed |-> FALSE, res |-> "pip_fail", listed |-> {}]
     ELSE IF binary \notin full.files
     THEN [created |-> TRUE, installed |-> TRUE, res |-> "not_found",
           listed |-> run_package_binary_paths(full, url)]
     ELSE [created |-> TRUE, installed |-> TRUE, res |-> "new_bin", listed |-> {}]

\* download_and_run of main.py: the same code.
download_and_run(binary, url, tool) ==
  LET full == [NoDir EXCEPT !.exists = TRUE, !.python = TRUE, !.files = PkgFiles]
  IN IF tool = "venv_fail"
     THEN [created |-> FALSE, installed |-> FALSE, res |-> "venv_fail", listed |-> {}]
     ELSE IF tool = "pip_fail"
     THEN [created |-> TRUE, installed |-> FALSE, res |-> "pip_fail", listed |-> {}]
     ELSE IF binary \notin full.files
     THEN [created |-> TRUE, installed |-> TRUE, res |-> "not_found",
           listed |-> run_package_binary_paths(full, url)]
     ELSE [created |-> TRUE, installed |-> TRUE, res |-> "new_bin", listed |-> {}]

\* run_ephemeral_binary of main.py (gen = 1) and of __main__.py (gen = 0)
\* for a binary that is no URL: ".exe" on Windows, a temporary directory,
\* download_and_run.
RunEphemeral ==
  /\ pure.fn \in {"none", "run", "ephemeral"}
  /\ \E app \in RunApps, url \in BOOLEAN, gen \in {0, 1},
        tool \in {"ok", "venv_fail", "pip_fail"} :
       LET binary == IF WINDOWS /\ ~app.exe THEN FileName(app.stem, TRUE) ELSE app
           r == IF gen = 1 THEN download_and_run(binary, url, tool)
                ELSE download_and_run0(binary, url, tool)
       IN pure' = [NoRun EXCEPT !.fn = "ephemeral", !.seq = 1 - pure.seq, !.app = app,
                                !.key = gen, !.use_cache = FALSE, !.url = url,
                                !.created = r.created, !.installed = r.installed,
                                !.res = r.res, !.listed = r.listed]
  /\ UNCHANGED <<pipxVars, sharedVars, rc, cache>>

\* A week passes.
RunTick ==
  /\ \E k \in Keys : cache[k].exists /\ cache[k].age < MaxAge
  /\ cache' = [k \in Keys |->
                 IF cache[k].exists /\ cache[k].age < MaxAge
                 THEN [cache[k] EXCEPT !.age = @ + DayStep] ELSE cache[k]]
  /\ UNCHANGED <<pipxVars, sharedVars, pure, rc>>

\* The arguments that name a venv of the cache: texts are sequences of
\* characters, pip_args and venv_args lists of texts.
PathPackages == {<<"p">>, <<"p", "y">>}
PathPythons == {<<"3">>, <<"y", "3">>}
PathArgs == {<<>>, <<<<"-a">>>>, <<<<"-a">>, <<"b">>>>, <<<<"-a", "b">>>>}

\* "".join(args)
RECURSIVE join(_)
join(args) == IF args = <<>> THEN <<>> ELSE Head(args) \o join(Tail(args))

\* _get_temporary_venv_path: the digest of the bytes that the four
\* update calls feed one after the other; a digest stands for its input.
_get_temporary_venv_path(package_or_url, python, pip_args, venv_args) ==
  package_or_url \o python \o join(pip_args) \o join(venv_args)

VenvPath ==
  /\ pure.fn = "none"
  /\ \E a, b \in [package_or_url : PathPackages, python : PathPythons,
                  pip_args : PathArgs, venv_args : PathArgs] :
       pure' = [fn |-> "venv_path", a |-> a, b |-> b,
                pa |-> _get_temporary_venv_path(a.package_or_url, a.python,
                                                a.pip_args, a.venv_args),
                pb |-> _get_temporary_venv_path(b.package_or_url, b.python,
                                                b.pip_args, b.venv_args)]
  /\ UNCHANGED <<pipxVars, sharedVars, rc, cache>>

\* ------------------------- the command line of an app run, pipx/main.py
\* argv[1:] is a sequence of tokens: "--spec" (an option with a value),
\* "--verbose" (a flag), "-x" (an option the parser does not know), "--",
\* and the words "a" and "b".
MaxArgv == 4
OptLike == {"--spec", "--verbose", "-x"}
ArgvInputs == SeqsUpTo(OptLike \cup {"--", "a", "b"}, MaxArgv)

\* The index of the first x in l, or 0: list.index.
RECURSIVE index_of(_, _, _)
index_of(l, x, i) ==
  IF i > Len(l) THEN 0 ELSE IF l[i] = x THEN i ELSE index_of(l, x, i + 1)

\* argparse: a token is an option string when it starts with "-" and
\* stands before the first "--" (at index d, 0 when there is none).
IsOpt(toks, d, i) == (d = 0 \/ i < d) /\ toks[i] \in OptLike

\* The index of the next option string from i on, or 0.
RECURSIVE NextOpt(_, _, _)
NextOpt(toks, d, i) ==
  IF i > Len(toks) THEN 0
  ELSE IF IsOpt(toks, d, i) THEN i
  ELSE NextOpt(toks, d, i + 1)

\* None where a token is expected.
Unset == "None"

NoArgs ==
  [done |-> FALSE, binary |-> <<>>, pos |-> 0, spec |-> Unset, extras |-> <<>>,
   err |-> FALSE]

\* consume_positionals: the positional "binary" (nargs="*") takes the
\* first run of arguments, the first "--" taken out; later ones are extras.
consume_positionals(toks, from, to, st) ==
  IF st.done
  THEN [st EXCEPT !.extras = @ \o SubSeq(toks, from, to)]
  ELSE [st EXCEPT !.done = TRUE,
                  !.binary = list_remove(SubSeq(toks, from, to), "--"),
                  !.pos = IF from <= to /\ toks[from] = "--" THEN from + 1 ELSE from]

\* ArgumentParser.parse_known_args of get_binary_parser: options and their
\* arguments from left to right, positionals in between.
RECURSIVE parse_scan(_, _, _, _)
parse_scan(toks, d, i, st) ==
  LET n == NextOpt(toks, d, i)
      lead == IF i + 1 = d THEN 1 ELSE 0
      a == i + 1 + lead
      trail == IF a + 1 = d THEN 1 ELSE 0
  IN IF st.err THEN st
     ELSE IF n = 0 THEN consume_positionals(toks, i, Len(toks), st)
     ELSE IF i < n THEN parse_scan(toks, d, n, consume_positionals(toks, i, n - 1, st))
     ELSE IF toks[i] = "--verbose" THEN parse_scan(toks, d, i + 1, st)
     ELSE IF toks[i] = "-x"
     THEN parse_scan(toks, d, i + 1, [st EXCEPT !.extras = @ \o <<"-x">>])
     ELSE IF a > Len(toks) \/ IsOpt(toks, d, a)
     THEN [st EXCEPT !.err = TRUE]
     ELSE parse_scan(toks, d, a + trail + 1, [st EXCEPT !.spec = toks[a]])

parse_known_args(toks) == parse_scan(toks, index_of(toks, "--", 1), 1, NoArgs)

\* parse_args: unrecognized arguments are an error.
parse_args(toks) ==
  LET r == parse_known_args(toks)
  IN IF r.extras # <<>> THEN [r EXCEPT !.err = TRUE] ELSE r

\* separate_pipx_and_binary_args; toks is argv[1:].
separate_pipx_and_binary_args(toks) ==
  LET args == parse_known_args(toks)
      index == index_of(toks, args.binary[1], 1)
  IN IF args.err THEN [err |-> TRUE, pipx_args |-> <<>>, binary_args |-> <<>>]
     ELSE IF args.binary # <<>>
     THEN [err |-> FALSE, pipx_args |-> SubSeq(toks, 1, index),
           binary_args |-> SubSeq(toks, index + 1, Len(toks))]
     ELSE [err |-> FALSE, pipx_args |-> toks, binary_args |-> <<>>]

\* The same function of __main__.py.
separate_pipx_and_binary_args0(toks) ==
  LET args == parse_known_args(toks)
      index == index_of(toks, args.binary[1], 1)
  IN IF args.err THEN [err |-> TRUE, pipx_args |-> <<>>, binary_args |-> <<>>]
     ELSE IF args.binary # <<>>
     THEN [err |-> FALSE, pipx_args |-> SubSeq(toks, 1, index),
           binary_args |-> SubSeq(toks, index + 1, Len(toks))]
     ELSE [err |-> FALSE, pipx_args |-> toks, binary_args |-> <<>>]

\* cli without a pipx command, down to the call of download_and_run: the
\* exit is "usage" (argparse error), "help" (no app named) or "run".
cli_run(toks, sep) ==
  LET args == parse_args(sep.pipx_args)
  IN IF sep.err \/ args.err
     THEN [exit |-> "usage", binary |-> Unset, binary_args |-> <<>>, spec |-> Unset]
     ELSE IF args.binary = <<>>
     THEN [exit |-> "help", binary |-> Unset, binary_args |-> <<>>, spec |-> Unset]
     ELSE [exit |-> "run", binary |-> args.binary[1], binary_args |-> sep.binary_args,
           spec |-> IF args.spec # Unset THEN args.spec ELSE args.binary[1]]

Cli ==
  /\ pure.fn = "none"
  /\ \E toks \in ArgvInputs :
       pure' = [fn |-> "cli", argv |-> toks,
                r |-> cli_run(toks, separate_pipx_and_binary_args(toks))]
  /\ UNCHANGED <<pipxVars, sharedVars, rc, cache>>

Cli0 ==
  /\ pure.fn = "none"
  /\ \E toks \in ArgvInputs :
       pure' = [fn |-> "cli0", argv |-> toks,
                r |-> cli_run(toks, separate_pipx_and_binary_args0(toks))]
  /\ UNCHANGED <<pipxVars, sharedVars, rc, cache>>

\* ------------------------------------------- metadata, src/pipx/pipxrc.py
\* pipxrc.json on disk: missing, unreadable (open raises IOError), no
\* JSON text, or a JSON object d. d gives for each key "absent", "null" or
\* "ok" (a value of the expected form); "install" may also be "nulls", an
\* object whose values are null, and "pipxrc_version" is "absent" or a
\* version.
InfoKeys == {"package_or_url", "install", "venv_metadata", "injected_packages"}
NoDict == [k \in InfoKeys \cup {"pipxrc_version"} |-> "absent"]
FileDicts ==
  {d \in [InfoKeys \cup {"pipxrc_version"} -> {"absent", "null", "nulls", "ok", "0.0", "0.1"}] :
     /\ \A k \in InfoKeys \ {"install"} : d[k] \in {"absent", "null", "ok"}
     /\ d["install"] \in {"absent", "null", "nulls", "ok"}
     /\ d["pipxrc_version"] \in {"absent", "0.0", "0.1"}}
RcFiles ==
  {[kind |-> k, d |-> NoDict] : k \in {"missing", "unreadable", "notjson"}}
  \cup {[kind |-> "json", d |-> d] : d \in FileDicts}

\* PipxrcInfo(): every member None; a member read or set is "v".
PipxrcInfo == [k \in InfoKeys |-> "None"]

NoRc == [file |-> [kind |-> "missing", d |-> NoDict], obj |-> FALSE, info |-> PipxrcInfo,
         op |-> "none", raised |-> "none"]

\* PipxrcInfo.from_dict: the members are assigned in order, up to the
\* first key that is missing or whose value has not the form expected.
RECURSIVE from_dict(_, _, _)
from_dict(info, d, keys) ==
  IF keys = <<>> THEN [info |-> info, raised |-> "none"]
  ELSE LET k == Head(keys)
       IN IF d[k] = "absent" THEN [info |-> info, raised |-> "KeyError"]
          ELSE IF d[k] = "null" /\ k \in {"install", "venv_metadata"}
          THEN [info |-> info, raised |-> "TypeError"]
          ELSE IF d[k] = "null" /\ k = "injected_packages"
          THEN [info |-> info, raised |-> "AttributeError"]
          ELSE from_dict([info EXCEPT ![k] = IF d[k] = "ok" THEN "v" ELSE "None"],
                         d, Tail(keys))

FromDictOrder == <<"package_or_url", "install", "venv_metadata", "injected_packages">>

\* Pipxrc.read: only IOError is caught.
pipxrc_read(file, info) ==
  IF file.kind \in {"missing", "unreadable"}
  THEN [info |-> PipxrcInfo, raised |-> "none"]
  ELSE IF file.kind = "notjson"
  THEN [info |-> info, raised |-> "JSONDecodeError"]
  ELSE from_dict(info, file.d, FromDictOrder)

\* Pipxrc._val_or_default, the body of every getter.
val_or_default(value, default) ==
  IF value # "None" THEN value ELSE default

\* PipxrcInfo.to_dict after write has made injected_packages a dict.
to_dict(info) ==
  [k \in InfoKeys \cup {"pipxrc_version"} |->
     IF k = "pipxrc_version" THEN "0.1"
     ELSE IF k = "injected_packages" THEN "ok"
     ELSE IF info[k] = "v" THEN "ok"
     ELSE IF k = "install" THEN "nulls"
     ELSE "null"]

\* Pipxrc(venv_dir, read): when read raises, no object is made.
PipxrcNew ==
  /\ \E read \in BOOLEAN :
       LET r == IF read THEN pipxrc_read(rc.file, PipxrcInfo)
                ELSE [info |-> PipxrcInfo, raised |-> "none"]
       IN rc' = [rc EXCEPT !.obj = r.raised = "none",
                           !.info = IF r.raised = "none" THEN r.info ELSE PipxrcInfo,
                           !.op = IF read THEN "read" ELSE "new",
                           !.raised = r.raised]
  /\ UNCHANGED <<pipxVars, sharedVars, pure, cache>>

\* read() of an object that exists.
PipxrcRead ==
  /\ rc.obj
  /\ LET r == pipxrc_read(rc.file, rc.info)
     IN rc' = [rc EXCEPT !.info = r.info, !.op = "read", !.raised = r.raised]
  /\ UNCHANGED <<pipxVars, sharedVars, pure, cache>>

\* set_package_or_url, set_install_options, set_venv_metadata,
\* add_injected_package.
PipxrcSet ==
  /\ rc.obj
  /\ \E k \in InfoKeys :
       rc' = [rc EXCEPT !.info[k] = "v", !.op = "set", !.raised = "none"]
  /\ UNCHANGED <<pipxVars, sharedVars, pure, cache>>

\* write(): an IOError is logged and the file is left as it was.
PipxrcWrite ==
  /\ rc.obj
  /\ \E io \in {"ok", "IOError"} :
       rc' = [rc EXCEPT !.info["injected_packages"] = IF @ = "None" THEN "v" ELSE @,
                        !.file = IF io = "ok"
                                 THEN [kind |-> "json", d |-> to_dict(rc.info)]
                                 ELSE @,
                        !.op = "write", !.raised = "none"]
  /\ UNCHANGED <<pipxVars, sharedVars, pure, cache>>

\* ------------------------------------------------------- specification
Init ==
  /\ WINDOWS \in BOOLEAN
  /\ venvs = [p \in Pkgs |-> VenvAbsent]
  /\ localbin \in [AppNames -> {NoEntry, UserFile}]
  /\ latest = [p \in Pkgs |-> 1]
  /\ last = NoCmd
  /\ rt = NoRt
  /\ shared = NoShared
  /\ sl = NewSharedLibs("shared_libs.py")
  /\ now = 0
  /\ slast = NoCall
  /\ pure = NoPure
  /\ rc = NoRc
  /\ cache = NoCache

Next ==
  \/ \E p \in Pkgs : Install0(p)
  \/ \E p \in Pkgs, force \in BOOLEAN : Install(p, force)
  \/ \E p \in Pkgs, force \in BOOLEAN : InstallCmd(p, force)
  \/ \E p \in Pkgs : Uninstall(p)
  \/ \E p \in Pkgs : Upgrade(p)
  \/ \E p \in Pkgs : Upgrade0(p)
  \/ \E p \in Pkgs : Publish(p)
  \/ \E p \in Pkgs : Mkdir(p)

Spec == Init /\ [][Next]_vars

\* The commands of pipx/main.py with the bulk commands: a bulk command runs
\* its whole loop in one step.
NextBulk ==
  \/ \E p \in Pkgs, force \in BOOLEAN : Install(p, force)
  \/ \E p \in Pkgs : Uninstall(p)
  \/ \E p \in Pkgs : Upgrade(p)
  \/ UpgradeAll
  \/ UpgradeAll0
  \/ UninstallAll
  \/ ReinstallAll
  \/ ReinstallAll0
  \/ \E p \in Pkgs : Publish(p)
  \/ \E p \in Pkgs : Mkdir(p)

SpecBulk == Init /\ [][NextBulk]_vars

\* The commands of pipx/main.py on one package, with inject.
NextInject ==
  \/ \E p \in Pkgs, force \in BOOLEAN : Install(p, force)
  \/ \E p \in Pkgs : Inject(p)
  \/ \E p \in Pkgs : Uninstall(p)
  \/ \E p \in Pkgs : Upgrade(p)
  \/ \E p \in Pkgs : Publish(p)
  \/ \E p \in Pkgs : Mkdir(p)

SpecInject == Init /\ [][NextInject]_vars

\* The shared libraries over the runs of pipx.
InitShared ==
  /\ WINDOWS = FALSE
  /\ venvs = [p \in Pkgs |-> VenvAbsent]
  /\ localbin = [n \in AppNames |-> NoEntry]
  /\ latest = [p \in Pkgs |-> 1]
  /\ last = NoCmd
  /\ rt = NoRt
  /\ shared \in InitialShared
  /\ \E g \in Gens : sl = NewSharedLibs(g)
  /\ now = 0
  /\ slast = NoCall
  /\ pure = NoPure
  /\ rc = NoRc
  /\ cache = NoCache

NextShared ==
  \/ SharedUpgrade
  \/ SharedUpgrade0
  \/ SharedCreate
  \/ SharedCreate0
  \/ Tick
  \/ NewRun

SpecShared == InitShared /\ [][NextShared]_vars

\* The functions of package_specifier.py applied to the specs given.
InitSpecifier ==
  /\ WINDOWS = FALSE
  /\ venvs = [p \in Pkgs |-> VenvAbsent]
  /\ localbin = [n \in AppNames |-> NoEntry]
  /\ latest = [p \in Pkgs |-> 1]
  /\ last = NoCmd
  /\ rt = NoRt
  /\ shared = NoShared
  /\ sl = NewSharedLibs("shared_libs.py")
  /\ now = 0
  /\ slast = NoCall
  /\ \E s \in SpecInputs : pure = PureInput(s)
  /\ rc = NoRc
  /\ cache = NoCache

NextSpecifier ==
  \/ ParseSpecifier
  \/ ParseForInstall
  \/ ParseForMetadata
  \/ ParseForUpgrade
  \/ FixPackageName
  \/ AbsPathIfLocal

SpecSpecifier == InitSpecifier /\ [][NextSpecifier]_vars

\* The calls on the metadata file of one venv, from any file on disk.
InitPipxrc ==
  /\ WINDOWS = FALSE
  /\ venvs = [p \in Pkgs |-> VenvAbsent]
  /\ localbin = [n \in AppNames |-> NoEntry]
  /\ latest = [p \in Pkgs |-> 1]
  /\ last = NoCmd
  /\ rt = NoRt
  /\ shared = NoShared
  /\ sl = NewSharedLibs("shared_libs.py")
  /\ now = 0
  /\ slast = NoCall
  /\ pure = NoPure
  /\ \E f \in RcFiles : rc = [NoRc EXCEPT !.file = f]
  /\ cache = NoCache

NextPipxrc ==
  \/ PipxrcNew
  \/ PipxrcRead
  \/ PipxrcSet
  \/ PipxrcWrite

SpecPipxrc == InitPipxrc /\ [][NextPipxrc]_vars

\* Nothing installed, nothing called.
InitIdle ==
  /\ WINDOWS = FALSE
  /\ venvs = [p \in Pkgs |-> VenvAbsent]
  /\ localbin = [n \in AppNames |-> NoEntry]
  /\ latest = [p \in Pkgs |-> 1]
  /\ last = NoCmd
  /\ rt = NoRt
  /\ shared = NoShared
  /\ sl = NewSharedLibs("shared_libs.py")
  /\ now = 0
  /\ slast = NoCall
  /\ pure = NoPure
  /\ rc = NoRc
  /\ cache = NoCache

\* The runs of apps from the cache of venvs, on either platform.
InitRun ==
  /\ WINDOWS \in BOOLEAN
  /\ venvs = [p \in Pkgs |-> VenvAbsent]
  /\ localbin = [n \in AppNames |-> NoEntry]
  /\ latest = [p \in Pkgs |-> 1]
  /\ last = NoCmd
  /\ rt = NoRt
  /\ shared = NoShared
  /\ sl = NewSharedLibs("shared_libs.py")
  /\ now = 0
  /\ slast = NoCall
  /\ pure = NoRun
  /\ rc = NoRc
  /\ cache = NoCache

NextRun ==
  \/ Run
  \/ RunEphemeral
  \/ RunTick

SpecRun == InitRun /\ [][NextRun]_vars

\* The directories of the cache that two runs use.
NextVenvPath == VenvPath

SpecVenvPath == InitIdle /\ [][NextVenvPath]_vars

\* The command lines that run an app.
NextCli ==
  \/ Cli
  \/ Cli0

SpecCli == InitIdle /\ [][NextCli]_vars

\* The directories that install chooses.
NextInstallDir == InstallDir

SpecInstallDir == InitIdle /\ [][NextInstallDir]_vars


\* ============================================================ properties
InstallFailed == {"createfail", "pipfail", "noversion", "noapps", "exposecrash"}

\* C1: when the installer step of an install exits non-zero and the venv
\* directory was absent or empty before the install, the directory is gone
\* when the error reaches the caller: the registry has no entry for it.
C1_FailedInstallRemovesVenv ==
  (last.cmd \in InstallCmds /\ last.res = "pipfail" /\ ~Existing(last.venvPre))
    => venvs[last.pkg].dir = "absent"

C1_Witness ==
  /\ last.cmd = "install" /\ last.res = "pipfail"
  /\ last.venvPre.dir = "absent" /\ venvs[last.pkg].dir = "absent"

\* C2: an install that found no venv directory ends, whatever failed in
\* create_venv or install_package, without a directory or with the main
\* package installed in it: no half-initialized venv stays registered.
C2_NoHalfInitializedVenv ==
  (last.cmd \in InstallCmds /\ last.venvPre.dir = "absent")
    => (venvs[last.pkg].dir = "absent" \/ venvs[last.pkg].ver > 0)

\* C3: Venv.remove_venv deletes the directory when the venv was missing or
\* empty at construction, and leaves the tree as it is when the venv was
\* non-empty at construction, whatever ran in between.
C3_RemoveVenvGuard ==
  (last.cmd = "install_cmd" /\ last.removeCalled)
    => IF Existing(last.venvPre)
       THEN venvs[last.pkg] = last.atRemove
       ELSE venvs[last.pkg].dir = "absent"

C3_Witness ==
  /\ last.cmd = "install_cmd" /\ last.removeCalled
  /\ Existing(last.venvPre) /\ venvs[last.pkg].dir = "nonempty"

\* C4: a failed install --force into a venv directory that existed and was
\* non-empty before the command leaves that directory in place.
C4_ForceFailureKeepsVenv ==
  (/\ last.cmd \in {"install", "install_cmd"} /\ last.force
   /\ Existing(last.venvPre) /\ last.res \in {"pipfail", "noversion", "noapps"})
    => venvs[last.pkg].dir = "nonempty"

\* C5: when the installer succeeds and the package has no executables, the
\* install fails, the venv this install created is removed and the shared
\* bin directory is as it was; an install that succeeds has executables.
C5_NoAppsRemovesVenv ==
  /\ (last.cmd \in InstallCmds /\ last.res = "noapps")
       => /\ ~Existing(last.venvPre) => venvs[last.pkg].dir = "absent"
          /\ localbin = last.binPre
  /\ (last.cmd \in InstallCmds /\ last.res = "ok")
       => get_package_binary_paths(venvs[last.pkg], last.pkg) # {}

C5_Witness ==
  /\ last.cmd \in {"install0", "install"} /\ last.res = "noapps"
  /\ last.venvPre.dir = "absent" /\ venvs[last.pkg].dir = "absent"

\* An entry that exists under app name n and does not point at the app's
\* path in package p.
Foreign(bin, n, p) == bin[n].kind # "none" /\ bin[n] # Link(p)

\* C6: on symlink platforms expose leaves every foreign entry under an
\* app's name as it is, warns about it, does not fail, and processes every
\* other app of the list.
C6_ExposeSkipsForeign ==
  (last.exposed /\ ~WINDOWS)
    => /\ last.res = "ok"
       /\ \A n \in last.paths :
            IF Foreign(last.binPre, n, last.pkg)
            THEN localbin[n] = last.binPre[n] /\ n \in last.warn
            ELSE localbin[n] = Link(last.pkg)

\* C7 as stated: the second of two successive expose calls with the same
\* paths changes nothing and warns about nothing.
C7_SecondExposeSilent ==
  last.again => (localbin = last.binPre /\ last.warn = {})

\* C7 amended: the second of two successive expose calls with the same
\* paths leaves the bin directory with the entries the first call left; on
\* symlink platforms it warns about exactly the apps the first call warned
\* about, on copy platforms it overwrites every destination with a warning.
C7_SecondExposeIdempotent ==
  last.again
    => /\ last.res = "ok"
       /\ localbin = last.binPre
       /\ ~WINDOWS => last.warn = last.warnBefore
       /\ WINDOWS => last.warn = last.paths

C7_Witness ==
  /\ last.again /\ ~WINDOWS /\ last.paths # {}
  /\ last.warn = {} /\ localbin = last.binPre

\* C8: from an empty shared bin directory, expose of a package's apps
\* followed by retract of the same apps leaves the directory empty.
C8_ExposeRetractFromEmpty ==
  (last.cmd = "uninstall" /\ last.fromEmpty) => BinEmpty(localbin)

C8_Witness ==
  /\ last.cmd = "uninstall" /\ last.fromEmpty
  /\ last.paths # {} /\ ~BinEmpty(last.binPre) /\ BinEmpty(localbin)

\* C9: uninstalling P removes from the shared bin directory only entries
\* that match one of P's app paths (a live symlink to the path, or the name
\* on copy platforms); every other entry and every other venv is unchanged.
C9_UninstallFrame ==
  (last.cmd = "uninstall")
    => /\ \A n \in AppNames :
            \/ localbin[n] = last.binPre[n]
            \/ /\ localbin[n] = NoEntry
               /\ n \in last.paths
               /\ ~WINDOWS => last.binPre[n] = Link(last.pkg)
       /\ \A n \in AppNames :
            last.binPre[n].kind = "file" /\ ~WINDOWS => localbin[n] = UserFile

C9_Witness ==
  /\ last.cmd = "uninstall" /\ last.res = "ok"
  /\ \E n \in AppNames : last.binPre[n] = Link(last.pkg) /\ localbin[n] = NoEntry
  /\ \E n \in AppNames : localbin[n].kind \in {"file", "link"}

\* C10: with the installer serving the same version, install, uninstall,
\* install of a package ends with the apps and the shims of the first
\* install.
C10_InstallRoundTrip ==
  (rt.stage = 3 /\ venvs[rt.pkg].ver = rt.ver)
    => /\ localbin = rt.bin
       /\ get_package_binary_paths(venvs[rt.pkg], rt.pkg) = Apps(rt.pkg, rt.ver)

C10_Witness ==
  /\ rt.stage = 3 /\ venvs[rt.pkg].ver = rt.ver
  /\ localbin = rt.bin /\ \E n \in AppNames : localbin[n] \in {Link(rt.pkg), Copy(rt.pkg)}

ReinstallCmds == {"reinstall_all", "reinstall_all0"}

\* The apps the shared bin directory exposes: the names under which it
\* holds an app of an installed package, with the package.
ExposedApps(bin, vs) ==
  {<<n, p>> \in AppNames \X Pkgs :
     bin[n] \in {Link(p), Copy(p)} /\ n \in get_package_binary_paths(vs[p], p)}

\* The calls of a bulk command are, for each directory of the registry and
\* once, the calls named by ops in that order.
CallsEach(log, reg, ops) ==
  /\ Len(log) = Len(ops) * Cardinality(reg)
  /\ \A p \in reg : \E k \in 0..(Cardinality(reg) - 1) :
       \A j \in 1..Len(ops) : log[k * Len(ops) + j] = <<ops[j], p>>

\* Every directory the registry held before the bulk command was the venv
\* of an installed package.
AllInstalledBefore == \A p \in Registry(last.venvsPre) : last.venvsPre[p].ver > 0

\* Every package of the registry was installed at the version the index
\* serves.
AllLatestBefore == \A p \in Registry(last.venvsPre) : last.venvsPre[p].ver = latest[p]

\* C11 as stated: reinstall-all calls uninstall and then install for each
\* environment of the registry, and when it succeeds the registry holds the
\* same packages and the bin directory exposes the same apps as before.
C11_ReinstallAllSameApps ==
  (last.cmd \in ReinstallCmds /\ last.res = "ok" /\ AllInstalledBefore)
    => /\ CallsEach(last.log, Registry(last.venvsPre), <<"uninstall", "install">>)
       /\ Registry(venvs) = Registry(last.venvsPre)
       /\ ExposedApps(localbin, venvs) = ExposedApps(last.binPre, last.venvsPre)

\* C11 amended: reinstall-all calls uninstall and then install for each
\* environment of the registry, and when it succeeds the registry holds the
\* same packages; where apps are exposed by symlink and every package was
\* installed at the version the installer serves, every app the bin
\* directory exposed before the command is exposed after it.
C11_ReinstallAllKeepsApps ==
  (last.cmd \in ReinstallCmds /\ last.res = "ok")
    => /\ CallsEach(last.log, Registry(last.venvsPre), <<"uninstall", "install">>)
       /\ Registry(venvs) = Registry(last.venvsPre)
       /\ (~WINDOWS /\ AllLatestBefore)
            => ExposedApps(last.binPre, last.venvsPre) \subseteq ExposedApps(localbin, venvs)

C11_Witness ==
  /\ last.cmd = "reinstall_all" /\ last.res = "ok" /\ ~WINDOWS /\ AllLatestBefore
  /\ Len(last.log) = 4
  /\ \E n \in AppNames : <<n, 1>> \in ExposedApps(last.binPre, last.venvsPre)
  /\ \E n \in AppNames : <<n, 2>> \in ExposedApps(localbin, venvs)

\* C12: an upgrade of an installed package whose version is the same
\* before and after pip ran reports that the package is already at the
\* latest version and leaves the shared bin directory as it was.
C12_UpgradeSameVersion ==
  (/\ last.cmd \in {"upgrade", "upgrade0"} /\ last.res = "same"
   /\ get_package_version(last.venvPre) > 0)
    => /\ last.reported
       /\ localbin = last.binPre
       /\ venvs[last.pkg] = last.venvPre

C12_Witness ==
  /\ last.cmd = "upgrade" /\ last.res = "same" /\ last.reported
  /\ get_package_version(last.venvPre) = latest[last.pkg]
  /\ \E n \in get_package_binary_paths(venvs[last.pkg], last.pkg) :
       localbin[n] \notin {Link(last.pkg), Copy(last.pkg)}

BulkCmds ==
  {"upgrade_all", "upgrade_all0", "uninstall_all", "reinstall_all", "reinstall_all0"}

\* C13: a bulk command processes every environment of the registry, also
\* when processing an earlier one failed.
C13_BulkProcessesAll ==
  (last.cmd \in BulkCmds /\ AllInstalledBefore)
    => Processed(last.log) = Registry(last.venvsPre)

\* C14: once an upgrade of this process has succeeded, every later call of
\* upgrade, direct or through create, runs no pip install and leaves the
\* shared directory (package list, pip's timestamp) as it is.
C14_UpgradeAtMostOnce ==
  (slast.called /\ slast.after) => (~slast.ran /\ shared = slast.atCall)

C14_Witness ==
  /\ slast.op = "upgrade" /\ slast.called /\ slast.after /\ ~slast.ran
  /\ sl.gen = "shared_libs.py" /\ now - shared.mtime > SHARED_LIBS_MAX_AGE_SEC

\* C15: needs_upgrade is true exactly when the shared libraries were not
\* upgraded in this run and pip is missing or was last modified more than
\* the 30 days ago; right after a successful upgrade it is false.
C15_NeedsUpgrade ==
  (sl.gen = "shared_libs.py")
    => /\ needs_upgrade(shared, sl, now)
            <=> (~sl.success /\ (~shared.pip \/ now - shared.mtime > SHARED_LIBS_MAX_AGE_SEC))
       /\ (slast.ran /\ slast.res = "ok") => ~needs_upgrade(shared, sl, now)

C15_Witness ==
  /\ sl.gen = "shared_libs.py" /\ ~sl.success /\ shared.pip
  /\ now - shared.mtime = SHARED_LIBS_MAX_AGE_SEC
  /\ ~needs_upgrade(shared, sl, now)

\* C16: at any point of a run is_valid is true exactly when python and pip
\* exist on disk and the package list on disk names every required
\* package.
C16_IsValidMatchesDisk ==
  (sl.gen = "shared_libs.py")
    => (is_valid(shared, sl).val
          <=> (shared.python /\ shared.pip /\ test_has_required_packages(shared)))

Populated(pp) ==
  {c \in {"valid_pep508", "valid_url", "valid_local_path"} :
     IF c = "valid_pep508" THEN pp.valid_pep508.ok ELSE pp[c] # None}

IsUrl(spec) == Requirement(<<"a", "@ ">> \o spec).ok

\* C17: _parse_specifier returns exactly one populated case, the first
\* that matches of requirement, URL and existing local path, so that a
\* valid requirement is a requirement also when a path of that name
\* exists; a spec that matches none of the three is an error.
C17_ExactlyOneCaseInOrder ==
  (pure.fn = "parse")
    => LET isreq == Requirement(pure.spec).ok
           isurl == IsUrl(pure.spec)
       IN /\ pure.err <=> (~isreq /\ ~isurl /\ ~pure.exists)
          /\ ~pure.err =>
               /\ Cardinality(Populated(pure.pp)) = 1
               /\ isreq => Populated(pure.pp) = {"valid_pep508"}
               /\ (~isreq /\ isurl) => Populated(pure.pp) = {"valid_url"}
               /\ (~isreq /\ ~isurl) => Populated(pure.pp) = {"valid_local_path"}

C17_Witness ==
  /\ pure.fn = "parse" /\ pure.exists /\ ~pure.err
  /\ Requirement(pure.spec).ok
  /\ Populated(pure.pp) = {"valid_pep508"}

\* C18: for a spec that is no local path the pip_args that
\* parse_specifier_for_install returns hold no --editable; for a local
\* path they are the pip_args given.
C18_EditableRemoved ==
  (pure.fn = "install" /\ ~pure.err)
    => IF pure.pp.valid_local_path = None
       THEN "--editable" \notin Elems(pure.args)
       ELSE pure.args = pure.pip_args

\* C19: for a requirement parse_specifier_for_upgrade returns a
\* requirement without version clauses and without marker, with the
\* canonical name and the extras of the one given; a URL is returned as it
\* is and a local path as its absolute path.
C19_UpgradeStripsVersions ==
  (pure.fn = "upgrade")
    => LET given == Requirement(pure.spec)
           o == Requirement(pure.out)
       IN /\ given.ok =>
               /\ ~pure.err /\ o.ok
               /\ o.specifier = {} /\ ~o.marker
               /\ o.name = canonicalize_name(given.name)
               /\ o.extras = given.extras
               /\ o.url = given.url
          /\ (~pure.err /\ pure.pp.valid_url # None) => pure.out = pure.spec
          /\ (~pure.err /\ pure.pp.valid_local_path # None) =>
               /\ Head(pure.out) = "/cwd/"
               /\ pure.out = pure.pp.valid_local_path

C19_Witness ==
  /\ pure.fn = "upgrade" /\ ~pure.err
  /\ LET given == Requirement(pure.spec)
     IN /\ given.ok /\ given.specifier # {} /\ given.marker /\ given.extras # {}
        /\ given.name # canonicalize_name(given.name)
  /\ Requirement(pure.out).specifier = {}

\* A name in lower case whose only separator is a single hyphen.
IsCanonicalName(n) ==
  /\ \A i \in DOMAIN n : n[i] \in {"a", "b", "-"}
  /\ \A i \in DOMAIN n : (i > 1 /\ n[i] = "-") => n[i - 1] # "-"

\* C20: for a valid requirement parse_specifier_for_metadata returns a
\* requirement whose name is lower-case and hyphen-normalised, and
\* parse_specifier_for_metadata of that result is that result.
C20_CanonicalIdempotent ==
  (pure.fn = "metadata" /\ Requirement(pure.spec).ok)
    => /\ ~pure.err
       /\ Requirement(pure.out).ok
       /\ IsCanonicalName(Requirement(pure.out).name)
       /\ pure.round = 2 => pure.out = pure.first

C20_Witness ==
  /\ pure.fn = "metadata" /\ pure.round = 2 /\ ~pure.err
  /\ Requirement(pure.spec).ok
  /\ ~IsCanonicalName(Requirement(pure.spec).name)
  /\ Requirement(pure.spec).marker
  /\ pure.out = pure.first

\* The spec without a trailing extras list, and that list.
TrailingSplit(spec) ==
  IF Len(spec) > 1 /\ spec[Len(spec)] = "[x]"
  THEN <<SubSeq(spec, 1, Len(spec) - 1), <<"[x]">> >>
  ELSE <<spec, <<>> >>

\* C21: a spec that is no valid requirement and no URL and that names an
\* existing path, a trailing extras list set aside, parses to a local
\* path: the resolved absolute path followed by that extras list.
C21_LocalPathResolved ==
  /\ (/\ pure.fn = "parse"
      /\ ~Requirement(pure.spec).ok /\ ~IsUrl(pure.spec)
      /\ IF TrailingSplit(pure.spec)[2] = <<>> THEN pure.whole ELSE pure.exists)
       => /\ ~pure.err
          /\ Populated(pure.pp) = {"valid_local_path"}
          /\ pure.pp.valid_local_path
               = resolve(TrailingSplit(pure.spec)[1]) \o TrailingSplit(pure.spec)[2]
          /\ Head(pure.pp.valid_local_path) = "/cwd/"
  /\ (/\ pure.fn = "abs_path" /\ pure.whole /\ ~valid_pkg_name(pure.spec))
       => pure.out = resolve(pure.spec)

\* C22: fix_package_name returns a spec that is no valid requirement as
\* it is; of a valid requirement it returns the requirement with the name
\* of the installed package and the extras, version clauses, URL and
\* marker given, and it warns exactly when the two names differ after
\* canonicalization.
C22_FixPackageName ==
  (pure.fn = "fix")
    => LET given == Requirement(pure.spec)
           o == Requirement(pure.out)
       IN IF ~given.ok
          THEN pure.out = pure.spec /\ ~pure.warned
          ELSE /\ o = [given EXCEPT !.name = pure.package]
               /\ pure.warned
                    <=> canonicalize_name(given.name) # canonicalize_name(pure.package)

C22_Witness ==
  /\ pure.fn = "fix" /\ ~pure.warned
  /\ LET given == Requirement(pure.spec)
     IN /\ given.ok /\ given.name # pure.package
        /\ given.extras # {} /\ given.specifier # {}
        /\ Requirement(pure.out).name = pure.package

\* A file that is missing or corrupt: it cannot be opened, is no JSON, or
\* lacks a member or has one that is not of the form expected.
Corrupt(file) ==
  \/ file.kind # "json"
  \/ \E k \in InfoKeys : file.d[k] \in {"absent", "null"} /\ k # "package_or_url"
  \/ file.d["package_or_url"] = "absent"

AllUnknown(info) == \A k \in InfoKeys : info[k] = "None"

\* C23: read of a metadata file that is missing or corrupt raises nothing
\* and leaves every member unknown, so that each getter returns the
\* default it is given.
C23_ReadNeverRaises ==
  (rc.op = "read" /\ Corrupt(rc.file))
    => /\ rc.raised = "none"
       /\ AllUnknown(rc.info)
       /\ \A k \in InfoKeys : val_or_default(rc.info[k], "default") = "default"

\* C24: read of a metadata file that is missing, or whose record has no
\* version, an older version or version 0.1, raises nothing: the members
\* are all unknown (legacy) or all those of the record, so that the venv
\* can be uninstalled and installed again.
C24_OldVersionReadable ==
  (rc.op = "read"
   /\ (rc.file.kind = "missing"
       \/ (rc.file.kind = "json" /\ rc.file.d["pipxrc_version"] \in {"absent", "0.0", "0.1"})))
    => /\ rc.raised = "none"
       /\ \/ AllUnknown(rc.info)
          \/ \A k \in InfoKeys : rc.info[k] = "v" <=> rc.file.d[k] = "ok"

\* The name followed by the suffix, if one is given.
NameSuffix(n, sfx) == IF sfx = None THEN n ELSE n \o sfx

\* C25: install uses the directory named by the package name followed by
\* the suffix, and two installs whose name and suffix give different
\* texts use different directories.
C25_VenvDirOfNameSuffix ==
  (pure.fn = "venv_dir")
    => /\ pure.out = NameSuffix(pure.name, pure.suffix)
       /\ (pure.round = 2 /\ NameSuffix(pure.name, pure.suffix) # NameSuffix(pure.prev[1], pure.prev[2]))
            => pure.out # pure.prev[3]

\* C30: install without force on a venv directory that holds something
\* creates no venv, runs no pip and leaves the directory and the shared
\* bin directory as they were; on a directory that is empty it installs as
\* it does when the directory is missing.
C30_InstallKeepsExisting ==
  (last.cmd \in {"install", "install_cmd"} /\ ~last.force)
    => /\ last.venvPre.dir = "nonempty" =>
            /\ last.res \in {"exists", "already"}
            /\ venvs[last.pkg] = last.venvPre
            /\ localbin = last.binPre
            /\ ~last.exposed /\ ~last.removeCalled
       /\ last.venvPre.dir = "empty" =>
            last.res \notin {"exists", "already", "stopiteration"}

\* The place of the app name on the command line: the first positional
\* argument that the parser finds in all of argv.
AppPos(toks) == parse_known_args(toks).pos

\* The command line up to the app name is a pipx command line that names
\* the app, a word.
NamesApp(toks) ==
  /\ AppPos(toks) \in 1..Len(toks)
  /\ toks[AppPos(toks)] \notin OptLike \cup {"--"}
  /\ ~parse_args(SubSeq(toks, 1, AppPos(toks))).err
  /\ parse_args(SubSeq(toks, 1, AppPos(toks))).binary = <<toks[AppPos(toks)]>>

\* C29: a command line that names an app runs that app, and the arguments
\* of the app are the tokens that follow its name, as they are and in
\* their order (each "--" too), wherever the pipx options stand.
C29_AppArgsVerbatim ==
  (pure.fn \in {"cli", "cli0"} /\ NamesApp(pure.argv))
    => /\ pure.r.exit = "run"
       /\ pure.r.binary = pure.argv[AppPos(pure.argv)]
       /\ pure.r.binary_args = Drop(pure.argv, AppPos(pure.argv))

\* The runs that executed an app.
RanApp == {"cached_ep", "cached_bin", "new_ep", "new_bin"}

\* C26: a run with the cache, for the directory and the app of the run
\* before it, which had the cache and executed the app, executes the app
\* from the venv that is there (not expired): it removes nothing, creates
\* no venv and installs nothing.
C26_SecondRunReusesCache ==
  [][(/\ pure.fn = "run" /\ pure.use_cache /\ pure.res \in RanApp
      /\ pure'.fn = "run" /\ pure'.seq # pure.seq /\ pure'.use_cache
      /\ pure'.key = pure.key /\ pure'.app = pure.app /\ pure'.res # "pypackages"
      /\ ~_is_temporary_venv_expired(cache[pure.key]))
     => /\ pure'.res \in {"cached_ep", "cached_bin"}
        /\ ~pure'.removed /\ ~pure'.created /\ ~pure'.installed]_vars

\* C27: a run without the cache that executes an app has removed the venv
\* that was there for its arguments, has created the venv and installed the
\* package, and so never executes the app from the venv of an earlier run.
C27_NoCacheRunsAfresh ==
  (pure.fn = "run" /\ ~pure.use_cache /\ pure.res \in RanApp)
    => /\ pure.pre => pure.removed
       /\ pure.res \notin {"cached_ep", "cached_bin"}
       /\ pure.created /\ pure.installed

\* C28: when the package is installed and the app is neither an entry
\* point of the group pipx.run nor a file of the bin directory, the run
\* ends with the error that lists the apps of the package, and no app is
\* executed.
C28_NotFoundListsApps ==
  (/\ pure.fn \in {"run", "ephemeral"} /\ pure.installed
   /\ (pure.fn = "run" => pure.app \notin PkgEps)
   /\ FileName(pure.app.stem, WINDOWS \/ pure.app.exe) \notin PkgFiles)
    => pure.res = "not_found" /\ pure.listed = PkgFiles

\* C31: a create of _SharedLibs that finds the shared libraries valid
\* changes nothing on disk, and after every create that returns without
\* raising is_valid is true: python and pip are files and the required
\* packages count as installed.
C31_CreateLeavesValid ==
  [][(slast'.op = "create" /\ sl.gen = "shared_libs.py")
     => /\ is_valid(shared, sl).val => shared' = shared
        /\ slast'.res # "raised" => is_valid(shared', sl').val]_vars

\* C32: every call of upgrade or create of _SharedLibs ends, returning
\* or raising, after at most one python -m venv and at most one pip
\* install, also when upgrade hands over to create and create calls
\* upgrade.
C32_SharedCallsEnd ==
  (slast.op \in {"upgrade", "create"} /\ sl.gen = "shared_libs.py")
    => /\ slast.res \in {"ok", "logged", "raised"}
       /\ slast.nvenv <= 1 /\ slast.npip <= 1

C32_Witness ==
  /\ slast.op = "upgrade" /\ sl.gen = "shared_libs.py"
  /\ slast.nvenv = 1 /\ slast.npip = 1 /\ slast.res = "logged"

\* An upgrade whose pip install failed.
FailedUpgrade(c) == c.op = "upgrade" /\ c.ran /\ c.res = "logged"

CacheRun == pure'.fn = "run" /\ pure'.seq # pure.seq /\ pure'.res # "pypackages"

\* C34: a run that comes to the cache removes every venv of the cache that
\* is expired (older than TEMP_VENV_EXPIRATION_THRESHOLD_DAYS, or marked)
\* before it looks for a venv to use: the expired venv of its own
\* arguments is removed and the app is not executed from it.
C34_ExpiredRemovedFirst ==
  [][CacheRun
     => \A j \in Keys :
          (cache[j].exists /\ _is_temporary_venv_expired(cache[j]))
            => IF j = pure'.key
               THEN pure'.removed /\ pure'.res \notin {"cached_ep", "cached_bin"}
               ELSE ~cache'[j].exists]_vars

C34_Witness ==
  /\ pure.fn = "run" /\ pure.use_cache /\ pure.pre /\ pure.removed
  /\ pure.res = "new_bin" /\ ~cache[pure.key].marked /\ cache[pure.key].age = 0

\* C35: when a run without the cache has created a venv in the cache, the
\* venv is marked as expired when the run has ended, by the app or by an
\* error.
C35_NoCacheVenvMarked ==
  (pure.fn = "run" /\ ~pure.use_cache /\ pure.created) => cache[pure.key].marked

\* C36: two runs use the same directory of the cache only if they have
\* the same package_or_url, the same python, the same list pip_args and
\* the same list venv_args.
C36_SamePathSameArgs ==
  (pure.fn = "venv_path" /\ pure.pa = pure.pb) => pure.a = pure.b

\* C37: after a write that stored the state of a Pipxrc object, whatever
\* was set in it, a read of the file raises nothing and gives the state
\* that was written, and the write has made injected_packages known.
C37_WriteReadRoundTrip ==
  [][/\ rc'.op = "write" => rc'.info["injected_packages"] # "None"
     /\ (/\ rc.op = "write" /\ rc.file = [kind |-> "json", d |-> to_dict(rc.info)]
         /\ rc'.op = "read")
          => rc'.raised = "none" /\ rc'.info = rc.info]_vars

C39_InjectKeepsVenv ==
  [][last'.cmd = "inject"
       => /\ venvs[last'.pkg].dir \in {"absent", "empty"}
               => /\ last'.res \in InjectPipxErrors
                  /\ last'.log = <<>>
                  /\ venvs' = venvs
          /\ venvs[last'.pkg].dir = "nonempty"
               => /\ venvs'[last'.pkg] = venvs[last'.pkg]
                  /\ ~last'.removeCalled]_vars

====
